---- MODULE Spec2Model ----
(***************************************************************************)
(* Anime tracker: the catalog synchronisation jobs of AnimeService over    *)
(* the SQLite store, and the dub resolution of DubChecker / DubService /   *)
(* TMDBService.                                                            *)
(*                                                                         *)
(* Every await of the JavaScript code is a point where another task may    *)
(* run, so every awaited database statement or HTTP request is a step of   *)
(* its own.  Fields of a catalog item that no modelled statement reads     *)
(* (titles, images, scores) are left out.                                  *)
(***************************************************************************)
EXTENDS Integers, Sequences, FiniteSets, TLC

\* Largest episode number the upstream catalog reports.
MaxEp == 2

\* External (AniList) ids of the concurrent-run model.
Ids == {1}

\* Every external id of the models.
CatalogIds == {1, 2, 3, 4, 5}

\* Entities whose dub is resolved, and the resolution calls that may be in
\* flight together.
DubIds == {1}

DubTasks == {1, 2}

\* Hours the clock of the model runs.
MaxHours == 24

\* Sync runs that may be in flight together (cron jobs, the startup sync and
\* the admin triggers all call the same two job entry points).
Runs == {1, 2}

\* ------------------------------------------------------------------------
\* State
\* ------------------------------------------------------------------------
VARIABLES
    anime,        \* table anime: row id (AUTOINCREMENT) -> row
    sync_logs,    \* table sync_logs: row id -> row
    run,          \* the sync job invocations: locals and position of each
    maxSupplied,  \* history: largest episodes_aired ever written per anilist_id
    lastUpsert,   \* history: the item of the saveAnime call applied last, if
                  \* no other write to the store followed it
    hist,         \* history, per run: the anilist ids whose INSERT/UPDATE it
                  \* has issued, the items its lists held, the loop
                  \* iterations it has ended, the writes it has applied
    now,          \* Date.now(), in hours
    dubCache,     \* DubChecker.dubCache: entity id -> cached results
    dubOverride,  \* Firebase anime/<id>/dubOverride
    fbDub,        \* Firebase anime/<id>: the dub fields saveDubInfo writes
    check,        \* the checkDub / setDubOverride calls of the browser
    returned,     \* the verdict the step just taken returned, if any
    srvCache,     \* DubService.dubCache: entity id -> { data, timestamp }
    dubs,         \* table dubs, in rowid order
    srvCheck,     \* the checkDubStatus calls of the server
    upd,          \* the updateDubStatus call of the admin route
    clock,        \* Date.now(), in milliseconds
    gql,          \* the AniListService.graphqlRequest call
    batch,        \* the DubService.batchCheckDubs call: its queue, results and
                  \* workers
    jikan,        \* DubService.lastJikanRequest, the checkJikanDub calls in
                  \* flight, and history: the times of the requests sent
    usr,          \* one user's row of user_progress for one anime, the
                  \* session_logs rows, and the updateProgress calls
    bsync,        \* the browser's AnimeSync: the runSync call in flight,
                  \* the keys of refs.anime, and syncLog/lastSync
    lc,           \* the season page: the clock (minutes), currentSeason and
                  \* currentYear, the season's snapshot in localStorage,
                  \* and the load in flight
    mrg,          \* one localCache.mergeUpdates call: the item stored under
                  \* the season's key, the fresh list, and what it returns
    ls,           \* localStorage: the item under each season's key
    pg            \* the page over all seasons: the clock (minutes), the
                  \* globals currentSeason, currentYear and animeCache,
                  \* the loads, refreshes and dub checks in flight, and
                  \* the localCache call made last

syncVars == <<anime, sync_logs, run, maxSupplied, lastUpsert, hist>>

clientVars == <<dubCache, dubOverride, fbDub, check>>

srvVars == <<srvCache, dubs, srvCheck, upd>>

netVars == <<clock, gql, jikan>>

pageVars == <<mrg, ls, pg>>

appVars == <<usr, bsync, lc, pageVars>>

LocalDubVars == <<now, clientVars, returned, srvVars, batch, appVars>>

dubVars == <<now, dubCache, dubOverride, fbDub, check, returned, srvCache, dubs,
             srvCheck, upd, netVars, batch, appVars>>

vars == <<anime, sync_logs, run, maxSupplied, lastUpsert, hist, now, dubCache,
          dubOverride, fbDub, check, returned, srvCache, dubs, srvCheck, upd,
          clock, gql, jikan, batch, usr, bsync, lc, mrg, ls, pg>>

\* ------------------------------------------------------------------------
\* AniListService.transformAnimeData
\* ------------------------------------------------------------------------
\* A catalog item as the GraphQL queries return it.  episodes = 0 stands for
\* null, next = 0 for nextAiringEpisode = null, sched = 0 for an absent or
\* empty airingSchedule.nodes (the season listing does not request it).
RawStatus == {"RELEASING", "FINISHED", "NOT_YET_RELEASED"}

RawSeasonItems(id) ==
    [id : {id}, status : RawStatus, episodes : {0, MaxEp},
     next : 0..MaxEp, sched : {0}]

RawDetailItems(id) ==
    [id : {id}, status : RawStatus, episodes : {0, MaxEp},
     next : {0}, sched : 0..MaxEp]

episodesAiredOf(a) ==
    IF a.sched > 0 THEN a.sched
    ELSE IF a.next > 0 THEN a.next - 1
    ELSE IF a.status = "FINISHED" THEN a.episodes
    ELSE 0

statusOf(a) ==
    CASE a.status = "RELEASING" -> "AIRING"
      [] a.status = "FINISHED" -> "FINISHED"
      [] a.status = "NOT_YET_RELEASED" -> "NOT_AIRED"
      [] a.status = "CANCELLED" -> "CANCELLED"
      [] a.status = "HIATUS" -> "HIATUS"
      [] OTHER -> "NOT_AIRED"

transformAnimeData(a) ==
    [anilist_id |-> a.id,
     total_episodes |-> a.episodes,
     episodes_aired |-> episodesAiredOf(a),
     status |-> statusOf(a)]

\* ------------------------------------------------------------------------
\* The store
\* ------------------------------------------------------------------------
RowIds == DOMAIN anime

RowsOf(e) == {i \in RowIds : anime[i].anilist_id = e}

\* SELECT id FROM anime WHERE anilist_id = ?   (0: no row)
SelectByAnilistId(e) ==
    IF RowsOf(e) = {} THEN 0 ELSE CHOOSE i \in RowsOf(e) : \A j \in RowsOf(e) : i <= j

\* anilist_id INTEGER UNIQUE: the INSERT is refused when a row holds the id.
UniqueViolationNoCheck(e) == FALSE

UniqueViolation(e) == RowsOf(e) # {}

\* INSERT INTO anime (...) VALUES (...)
InsertAnime(data) == Append(anime, data)

\* UPDATE anime SET total_episodes = ?, episodes_aired = ?, status = ?, ...
\* WHERE id = ?
updateAnimeFromAniList(id, data) ==
    [anime EXCEPT ![id] = [anilist_id |-> anime[id].anilist_id,
                          total_episodes |-> data.total_episodes,
                          episodes_aired |-> data.episodes_aired,
                          status |-> data.status]]

Max(a, b) == IF a >= b THEN a ELSE b

Supplied(e, data) ==
    [maxSupplied EXCEPT ![e] = Max(maxSupplied[e], data.episodes_aired)]

\* The row ids of S in id order, as the list a SELECT over them returns.
RECURSIVE IdList(_)
IdList(S) ==
    IF S = {} THEN <<>>
    ELSE LET m == CHOOSE i \in S : \A j \in S : j <= i
         IN  Append(IdList(S \ {m}), m)

\* SELECT id, anilist_id, episodes_aired, status FROM anime
\* WHERE status = 'AIRING'
SelectOurAiring == IdList({i \in RowIds : anime[i].status = "AIRING"})

\* SELECT id, anilist_id FROM anime WHERE status = 'AIRING'
\* AND total_episodes IS NOT NULL AND episodes_aired >= total_episodes
SelectPossiblyFinished ==
    IdList({i \in RowIds : /\ anime[i].status = "AIRING"
                           /\ anime[i].total_episodes # 0
                           /\ anime[i].episodes_aired >= anime[i].total_episodes})

\* ------------------------------------------------------------------------
\* sync_logs
\* ------------------------------------------------------------------------
\* INSERT INTO sync_logs (job_type, status) VALUES (?, 'RUNNING')
startSyncLog(jobType) ==
    Append(sync_logs, [job_type |-> jobType, status |-> "RUNNING",
                       anime_added |-> 0, anime_updated |-> 0,
                       errors |-> <<>>, completed |-> FALSE])

\* An UPDATE that leaves completed_at as it is.
completeSyncLogNoStamp(logId, status, added, updated, errors) ==
    [sync_logs EXCEPT ![logId] = [job_type |-> sync_logs[logId].job_type,
                                  status |-> status,
                                  anime_added |-> added,
                                  anime_updated |-> updated,
                                  errors |-> errors,
                                  completed |-> sync_logs[logId].completed]]

\* UPDATE sync_logs SET status = ?, anime_added = ?, anime_updated = ?,
\* errors = ?, completed_at = CURRENT_TIMESTAMP WHERE id = ?
completeSyncLog(logId, status, added, updated, errors) ==
    [sync_logs EXCEPT ![logId] = [job_type |-> sync_logs[logId].job_type,
                                  status |-> status,
                                  anime_added |-> added,
                                  anime_updated |-> updated,
                                  errors |-> errors,
                                  completed |-> TRUE]]

\* ------------------------------------------------------------------------
\* Sync runs
\* ------------------------------------------------------------------------
IdleRun ==
    [job |-> "NONE", pc |-> "idle", logId |-> 0, phase |-> "current",
     page |-> 1, list |-> <<>>, idx |-> 1, existing |-> 0, airing |-> {},
     added |-> 0, updated |-> 0, errors |-> <<>>, thrown |-> "none"]

NoUpsert == [id |-> 0, status |-> "NONE", episodes |-> 0, next |-> 0, sched |-> 0]

NoHist == [upserted |-> {}, items |-> 0, handled |-> 0, wrote |-> 0]

Handled(r, n, w) ==
    [hist EXCEPT ![r] = [@ EXCEPT !.handled = @ + n, !.wrote = @ + w]]

Listed(r, list) == [hist EXCEPT ![r] = [@ EXCEPT !.items = @ + Len(list)]]

\* What follows the last item of a list: the next-season fetch after the
\* current season's items, the finish-candidate query after the first pass
\* of the daily update, completeSyncLog(..., 'SUCCESS', ...) otherwise.
AfterList(rec) ==
    LET clean == [rec EXCEPT !.list = <<>>, !.idx = 1, !.existing = 0, !.page = 1]
    IN  CASE rec.job = "SEASON_SYNC" /\ rec.phase = "current" ->
               [clean EXCEPT !.phase = "next", !.pc = "fetch"]
          [] rec.job = "DAILY_UPDATE" /\ rec.phase = "pass1" ->
               [clean EXCEPT !.phase = "pass2", !.pc = "possiblyFinished"]
          [] OTHER -> [clean EXCEPT !.pc = "complete"]

\* The end of one iteration of a for-of loop over rec.list.
AfterItem(rec) ==
    IF rec.idx < Len(rec.list)
    THEN [rec EXCEPT !.idx = @ + 1, !.existing = 0,
                     !.pc = IF rec.job = "SEASON_SYNC" THEN "select" ELSE rec.phase]
    ELSE AfterList(rec)

\* The start of a for-of loop over a freshly fetched list.
StartList(rec, list, first) ==
    IF list = <<>> THEN AfterList(rec)
    ELSE [rec EXCEPT !.list = list, !.idx = 1, !.existing = 0, !.pc = first]

\* A failure escaping an item's try block: the run's outer catch takes it.
ItemErrorUncaught(rec, e, msg) ==
    [rec EXCEPT !.pc = "catch", !.thrown = msg, !.list = <<>>, !.idx = 1,
                !.existing = 0]

\* try { ... } catch (err) { errors.push(`${...}: ${err.message}`) } around
\* each item: the failure is recorded and the loop goes on.
ItemError(rec, e, msg) ==
    AfterItem([rec EXCEPT !.errors = Append(@, [id |-> e, msg |-> msg])])

\* A run that takes the first row of sync_logs for its own.
StartRunFirstLog(r, job) ==
    /\ run[r].pc = "idle"
    /\ sync_logs' = startSyncLog(job)
    /\ run' = [run EXCEPT ![r] = [@ EXCEPT !.job = job,
                  !.logId = 1,
                  !.phase = IF job = "SEASON_SYNC" THEN "current" ELSE "pass1",
                  !.pc = IF job = "SEASON_SYNC" THEN "fetch" ELSE "airing"]]
    /\ UNCHANGED <<anime, maxSupplied, lastUpsert, hist>>

\* const logId = await this.startSyncLog(jobType)
StartRun(r, job) ==
    /\ run[r].pc = "idle"
    /\ sync_logs' = startSyncLog(job)
    /\ run' = [run EXCEPT ![r] = [@ EXCEPT !.job = job,
                  !.logId = Len(sync_logs) + 1,
                  !.phase = IF job = "SEASON_SYNC" THEN "current" ELSE "pass1",
                  !.pc = IF job = "SEASON_SYNC" THEN "fetch" ELSE "airing"]]
    /\ UNCHANGED <<anime, maxSupplied, lastUpsert, hist>>

\* One iteration of getAllSeasonalAnime's loop: a page is fetched and its
\* media appended; the loop ends when the page reports hasNextPage = false.
\* layout is the upstream's pages for the season being fetched.
FetchPage(r, layout) ==
    /\ run[r].pc = "fetch"
    /\ LET rec == run[r]
           all == rec.list \o layout[rec.page]
       IN  /\ run' = [run EXCEPT ![r] =
                IF rec.page < Len(layout)
                THEN [rec EXCEPT !.page = @ + 1, !.list = all]
                ELSE StartList([rec EXCEPT !.page = 1], all, "select")]
           /\ hist' = Listed(r, layout[rec.page])
    /\ UNCHANGED <<anime, sync_logs, maxSupplied, lastUpsert>>

\* A page request rejects (graphqlRequest rethrows): getAllSeasonalAnime
\* rejects and the job's outer catch runs.
FetchFails(r) ==
    /\ run[r].pc \in {"fetch", "airing"}
    /\ run' = [run EXCEPT ![r] = [@ EXCEPT !.pc = "catch", !.list = <<>>,
                  !.page = 1, !.idx = 1, !.thrown = "page request failed"]]
    /\ UNCHANGED <<anime, sync_logs, maxSupplied, lastUpsert, hist>>

\* saveAnime, first statement: SELECT id FROM anime WHERE anilist_id = ?
SaveSelect(r) ==
    /\ run[r].pc = "select"
    /\ LET rec == run[r]
           e == rec.list[rec.idx]
       IN  run' = [run EXCEPT ![r] =
                [rec EXCEPT !.existing = SelectByAnilistId(e), !.pc = "write"]]
    /\ UNCHANGED <<anime, sync_logs, maxSupplied, lastUpsert, hist>>

\* saveAnime, second statement: the UPDATE of the row found, or the INSERT.
\* raw is the item of the fetched list (its fields are read here for the
\* first time since the fetch).
SaveWrite(r, raw) ==
    /\ run[r].pc = "write"
    /\ LET rec == run[r]
           e == rec.list[rec.idx]
           data == transformAnimeData(raw)
           issued == [hist EXCEPT ![r] = [@ EXCEPT !.upserted = @ \cup {e},
                                                   !.handled = @ + 1]]
           applied == [issued EXCEPT ![r] = [@ EXCEPT !.wrote = @ + 1]]
       IN  /\ raw.id = e
           /\ IF rec.existing # 0
              THEN /\ anime' = updateAnimeFromAniList(rec.existing, data)
                   /\ maxSupplied' = Supplied(e, data)
                   /\ lastUpsert' = raw
                   /\ hist' = applied
                   /\ run' = [run EXCEPT ![r] =
                         AfterItem([rec EXCEPT !.updated = @ + 1])]
              ELSE IF UniqueViolation(e)
              THEN /\ run' = [run EXCEPT ![r] =
                         ItemError(rec, e, "SQLITE_CONSTRAINT")]
                   /\ hist' = issued
                   /\ UNCHANGED <<anime, maxSupplied, lastUpsert>>
              ELSE /\ anime' = InsertAnime(data)
                   /\ maxSupplied' = Supplied(e, data)
                   /\ lastUpsert' = raw
                   /\ hist' = applied
                   /\ run' = [run EXCEPT ![r] =
                         AfterItem([rec EXCEPT !.added = @ + 1])]
    /\ UNCHANGED sync_logs

\* A statement of saveAnime rejects for a reason of the store's own
\* (SQLITE_BUSY, I/O): nothing is written.
SaveFails(r) ==
    /\ run[r].pc \in {"select", "write"}
    /\ run' = [run EXCEPT ![r] =
             ItemError(run[r], run[r].list[run[r].idx], "SQLITE_ERROR")]
    /\ hist' = Handled(r, 1, 0)
    /\ UNCHANGED <<anime, sync_logs, maxSupplied, lastUpsert>>

\* const airingAnime = await anilistService.getAiringAnime()
FetchAiring(r, airing) ==
    /\ run[r].pc = "airing"
    /\ run' = [run EXCEPT ![r] = [@ EXCEPT !.airing = airing, !.pc = "ourAiring"]]
    /\ UNCHANGED <<anime, sync_logs, maxSupplied, lastUpsert, hist>>

\* const ourAiringAnime = await db.allAsync(... WHERE status = 'AIRING')
SelectAiring(r) ==
    /\ run[r].pc = "ourAiring"
    /\ run' = [run EXCEPT ![r] = StartList(run[r], SelectOurAiring, "pass1")]
    /\ hist' = Listed(r, SelectOurAiring)
    /\ UNCHANGED <<anime, sync_logs, maxSupplied, lastUpsert>>

\* First loop of dailyUpdateJob, an item the airing listing lacks:
\* anilistMap.get(...) is undefined and the iteration does nothing.
DailySkip(r) ==
    /\ run[r].pc = "pass1"
    /\ anime[run[r].list[run[r].idx]].anilist_id \notin run[r].airing
    /\ run' = [run EXCEPT ![r] = AfterItem(run[r])]
    /\ hist' = Handled(r, 1, 0)
    /\ UNCHANGED <<anime, sync_logs, maxSupplied, lastUpsert>>

\* A first loop that asks for the details of every item of the list.
DailyItemUnlisted(r, raw) ==
    /\ run[r].pc = "pass1"
    /\ LET rec == run[r]
           id == rec.list[rec.idx]
           e == anime[id].anilist_id
           data == transformAnimeData(raw)
       IN  /\ raw.id = e
           /\ anime' = updateAnimeFromAniList(id, data)
           /\ maxSupplied' = Supplied(e, data)
           /\ run' = [run EXCEPT ![r] = AfterItem([rec EXCEPT !.updated = @ + 1])]
    /\ lastUpsert' = NoUpsert
    /\ hist' = Handled(r, 1, 1)
    /\ UNCHANGED sync_logs

\* First loop of dailyUpdateJob, an item of the airing listing:
\* getAnimeDetails, transformAnimeData, updateAnimeFromAniList, updated++.
\* (The request reads nothing of the store, so it is one step with the
\* UPDATE that follows it.)
DailyItem(r, raw) ==
    /\ run[r].pc = "pass1"
    /\ LET rec == run[r]
           id == rec.list[rec.idx]
           e == anime[id].anilist_id
           data == transformAnimeData(raw)
       IN  /\ e \in rec.airing
           /\ raw.id = e
           /\ anime' = updateAnimeFromAniList(id, data)
           /\ maxSupplied' = Supplied(e, data)
           /\ run' = [run EXCEPT ![r] = AfterItem([rec EXCEPT !.updated = @ + 1])]
    /\ lastUpsert' = NoUpsert
    /\ hist' = Handled(r, 1, 1)
    /\ UNCHANGED sync_logs

\* const possiblyFinished = await db.allAsync(... episodes_aired >= total_episodes)
SelectFinished(r) ==
    /\ run[r].pc = "possiblyFinished"
    /\ run' = [run EXCEPT ![r] = StartList(run[r], SelectPossiblyFinished, "pass2")]
    /\ hist' = Listed(r, SelectPossiblyFinished)
    /\ UNCHANGED <<anime, sync_logs, maxSupplied, lastUpsert>>

\* Second loop of dailyUpdateJob: getAnimeDetails, transformAnimeData,
\* updateAnimeFromAniList (updated is not incremented here).
FinishItem(r, raw) ==
    /\ run[r].pc = "pass2"
    /\ LET rec == run[r]
           id == rec.list[rec.idx]
           e == anime[id].anilist_id
           data == transformAnimeData(raw)
       IN  /\ raw.id = e
           /\ anime' = updateAnimeFromAniList(id, data)
           /\ maxSupplied' = Supplied(e, data)
           /\ run' = [run EXCEPT ![r] = AfterItem(rec)]
    /\ lastUpsert' = NoUpsert
    /\ hist' = Handled(r, 1, 1)
    /\ UNCHANGED sync_logs

\* getAnimeDetails or the UPDATE rejects inside an item's try block.
DailyFails(r) ==
    /\ run[r].pc \in {"pass1", "pass2"}
    /\ LET rec == run[r]
           e == anime[rec.list[rec.idx]].anilist_id
       IN  /\ rec.pc = "pass1" => e \in rec.airing
           /\ run' = [run EXCEPT ![r] = ItemError(rec, e, "details request failed")]
    /\ hist' = Handled(r, 1, 0)
    /\ UNCHANGED <<anime, sync_logs, maxSupplied, lastUpsert>>

\* await this.completeSyncLog(logId, 'SUCCESS', added, updated, errors)
CompleteRun(r) ==
    /\ run[r].pc = "complete"
    /\ sync_logs' = completeSyncLog(run[r].logId, "SUCCESS", run[r].added,
                                    run[r].updated, run[r].errors)
    /\ run' = [run EXCEPT ![r] = [@ EXCEPT !.pc = "done"]]
    /\ UNCHANGED <<anime, maxSupplied, lastUpsert, hist>>

\* catch (error) { await this.completeSyncLog(logId, 'ERROR', added, updated,
\* [error.message]); throw error }
\* An outer catch that logs no counts.
CatchRunNoCounts(r) ==
    /\ run[r].pc = "catch"
    /\ sync_logs' = completeSyncLog(run[r].logId, "ERROR", 0, 0,
                                    <<run[r].thrown>>)
    /\ run' = [run EXCEPT ![r] = [@ EXCEPT !.pc = "failed"]]
    /\ UNCHANGED <<anime, maxSupplied, lastUpsert, hist>>

\* catch (error) { await this.completeSyncLog(logId, 'ERROR', ...); throw }
CatchRun(r) ==
    /\ run[r].pc = "catch"
    /\ sync_logs' = completeSyncLog(run[r].logId, "ERROR", run[r].added,
                                    run[r].updated, <<run[r].thrown>>)
    /\ run' = [run EXCEPT ![r] = [@ EXCEPT !.pc = "failed"]]
    /\ UNCHANGED <<anime, maxSupplied, lastUpsert, hist>>


\* ------------------------------------------------------------------------
\* Dub resolution in the browser: DubChecker.checkDub
\* ------------------------------------------------------------------------
\* Platform names as the sources spell them.
PlatformNames == {"Amazon Prime", "amazon prime", "Prime Video"}

\* The platform lists a source may report (a source may name a platform
\* twice: one entry per external link, streaming episode or studio).
PlatformLists ==
    {<<>>, <<"Amazon Prime">>, <<"amazon prime">>, <<"Prime Video">>,
     <<"Prime Video", "Prime Video">>}

\* The weights checkDub adds to the confidence, and its ceiling.
AniListWeight == 30

JikanWeight == 40

KnownWeight == 30

OverrideConfidence == 100

MaxConfidence == 100

\* DubChecker.cacheExpiry, in hours.
cacheExpiry == 24

\* What an adapter resolves to: null (found = FALSE) or its result object.
NoResult == [found |-> FALSE, hasDub |-> FALSE, platforms |-> <<>>]

Found(h, p) == [found |-> TRUE, hasDub |-> h, platforms |-> p]

\* checkAniListDub: null on a failed request or an unknown media; every
\* pushed platform comes with hasDub = true, a URL that mentions a dub sets
\* hasDub alone.
AniListResults(lists) ==
    {NoResult, Found(FALSE, <<>>)} \cup {Found(TRUE, p) : p \in lists}

\* checkJikanDub: checkDub reads hasDub and dubInfo of its result only, and
\* dubInfo is always null.
JikanResults == {NoResult, Found(FALSE, <<>>), Found(TRUE, <<>>)}

\* checkKnownDubList: the knownDubs entry or the first title pattern that
\* matches, else null.
KnownResults(lists) == {NoResult} \cup {Found(TRUE, p) : p \in lists}

\* The dubOverride node of an entity as checkFirebaseOverride reads it.
\* listed = FALSE: the node has no platforms key.
NoOverride ==
    [found |-> FALSE, hasDub |-> FALSE, platforms |-> <<>>, listed |-> FALSE]

Overrides(lists) ==
    {[found |-> TRUE, hasDub |-> h, platforms |-> p, listed |-> TRUE] :
        h \in BOOLEAN, p \in lists}
    \cup {[found |-> TRUE, hasDub |-> h, platforms |-> <<>>, listed |-> FALSE] :
            h \in BOOLEAN}

\* The results object of checkDub.  dubEpisodes and dubStatus are copied
\* from the override and read by nothing modelled.
NewResults(t0) ==
    [hasDub |-> FALSE, confidence |-> 0, sources |-> <<>>, platforms |-> <<>>,
     lastChecked |-> t0]

\* No verdict: an absent cache entry, an absent Firebase node.
NoVerdict == NewResults(-1)

Min(a, b) == IF a <= b THEN a ELSE b

ProcessAniList(r, a) ==
    IF a.found /\ a.hasDub
    THEN [r EXCEPT !.hasDub = TRUE,
                   !.confidence = @ + AniListWeight,
                   !.sources = Append(@, "AniList"),
                   !.platforms = @ \o a.platforms]
    ELSE r

\* A community weight equal to the catalog's.
ProcessJikanAsAniList(r, j) ==
    IF j.found /\ j.hasDub
    THEN [r EXCEPT !.hasDub = TRUE,
                   !.confidence = @ + AniListWeight,
                   !.sources = Append(@, "MyAnimeList")]
    ELSE r

ProcessJikan(r, j) ==
    IF j.found /\ j.hasDub
    THEN [r EXCEPT !.hasDub = TRUE,
                   !.confidence = @ + JikanWeight,
                   !.sources = Append(@, "MyAnimeList")]
    ELSE r

\* override.platforms || results.platforms: an array is truthy, an absent
\* key is not.
ProcessOverride(r, o) ==
    IF o.found
    THEN [r EXCEPT !.hasDub = o.hasDub,
                   !.confidence = OverrideConfidence,
                   !.sources = <<"Manual Override">>,
                   !.platforms = IF o.listed THEN o.platforms ELSE @]
    ELSE r

ProcessKnown(r, k) ==
    IF k.found /\ k.hasDub
    THEN [r EXCEPT !.hasDub = TRUE,
                   !.confidence = @ + KnownWeight,
                   !.sources = Append(@, "Known Database"),
                   !.platforms = @ \o k.platforms]
    ELSE r

\* The confidence left as summed.
ConfidenceAsSummed(c) == c

\* Math.min(results.confidence, 100)
NormalizeConfidence(c) == Min(c, MaxConfidence)

\* [...new Set(platforms)]: the first occurrence of every string, in order.
RECURSIVE RemoveDuplicates(_)
RemoveDuplicates(s) ==
    IF s = <<>> THEN <<>>
    ELSE LET front == RemoveDuplicates(SubSeq(s, 1, Len(s) - 1))
             x == s[Len(s)]
         IN  IF \E i \in DOMAIN front : front[i] = x THEN front
             ELSE Append(front, x)

\* The body of checkDub between Promise.allSettled and saveToCache.
MergeResults(t0, a, j, o, k) ==
    LET r == ProcessKnown(ProcessOverride(ProcessJikan(
                 ProcessAniList(NewResults(t0), a), j), o), k)
    IN  [r EXCEPT !.confidence = NormalizeConfidence(@),
                  !.platforms = RemoveDuplicates(@)]

\* A cache that is never hit.
getFromCacheMiss(id) == NoVerdict

\* A lookup that does not look at the entry's age.
getFromCacheAnyAge(id) == dubCache[id]

getFromCache(id) ==
    IF dubCache[id] # NoVerdict /\ now - dubCache[id].lastChecked < cacheExpiry
    THEN dubCache[id]
    ELSE NoVerdict

saveToCache(id, data) == [dubCache EXCEPT ![id] = data]

\* A checkDub call: its position and locals.
IdleCheck ==
    [pc |-> "idle", id |-> 0, bare |-> FALSE, lastChecked |-> 0,
     anilist |-> NoResult, jikan |-> NoResult, known |-> NoResult,
     override |-> NoOverride, results |-> NoVerdict]

NoReturn == [by |-> "none", hit |-> FALSE, verdict |-> NoVerdict]

\* checkDub up to its first await: the cached verdict, or the four checks
\* are started.
checkDub(t, id) ==
    /\ check[t].pc = "idle"
    /\ LET cached == getFromCache(id)
       IN  IF cached # NoVerdict
           THEN /\ returned' = [by |-> "DubChecker", hit |-> TRUE,
                                verdict |-> cached]
                /\ UNCHANGED check
           ELSE /\ check' = [check EXCEPT ![t] =
                        [IdleCheck EXCEPT !.pc = "checks", !.id = id,
                                          !.lastChecked = now]]
                /\ returned' = NoReturn
    /\ UNCHANGED <<now, dubCache, dubOverride, fbDub>>

\* checkFirebaseOverride reads the override node.
checkFirebaseOverride(t) ==
    /\ check[t].pc = "checks"
    /\ check' = [check EXCEPT ![t] =
                    [@ EXCEPT !.pc = "settle",
                              !.override = dubOverride[check[t].id]]]
    /\ returned' = NoReturn
    /\ UNCHANGED <<now, dubCache, dubOverride, fbDub>>

\* The four checks have settled: merge, normalise, cache.  A call without
\* a MAL id (the re-check of setDubOverride) skips checkJikanDub.
CheckDubSettle(t, a, j, k) ==
    /\ check[t].pc = "settle"
    /\ check[t].bare => j = NoResult
    /\ LET results == MergeResults(check[t].lastChecked, a, j,
                                   check[t].override, k)
       IN  /\ dubCache' = saveToCache(check[t].id, results)
           /\ check' = [check EXCEPT ![t] =
                           [@ EXCEPT !.pc = "save", !.anilist = a, !.jikan = j,
                                     !.known = k, !.results = results]]
    /\ returned' = NoReturn
    /\ UNCHANGED <<now, dubOverride, fbDub>>

\* saveDubInfo (a failed update is logged and dropped), then the return.
saveDubInfo(t, ok) ==
    /\ check[t].pc = "save"
    /\ fbDub' = IF ok THEN [fbDub EXCEPT ![check[t].id] = check[t].results]
                ELSE fbDub
    /\ returned' = [by |-> "DubChecker", hit |-> FALSE,
                    verdict |-> check[t].results]
    /\ check' = [check EXCEPT ![t] = IdleCheck]
    /\ UNCHANGED <<now, dubCache, dubOverride>>

\* setDubOverride up to its await: the override node is written.
setDubOverride(t, id, data) ==
    /\ check[t].pc = "idle"
    /\ dubOverride' = [dubOverride EXCEPT ![id] = data]
    /\ check' = [check EXCEPT ![t] = [IdleCheck EXCEPT !.pc = "override", !.id = id]]
    /\ returned' = NoReturn
    /\ UNCHANGED <<now, dubCache, fbDub>>

\* setDubOverride after its await: the cache entry is deleted and
\* checkDub({ id }) starts, which misses the cache.
OverrideRecheck(t) ==
    /\ check[t].pc = "override"
    /\ dubCache' = [dubCache EXCEPT ![check[t].id] = NoVerdict]
    /\ check' = [check EXCEPT ![t] =
                    [@ EXCEPT !.pc = "checks", !.bare = TRUE,
                              !.lastChecked = now]]
    /\ returned' = NoReturn
    /\ UNCHANGED <<now, dubOverride, fbDub>>

\* ------------------------------------------------------------------------
\* TMDBService.checkDub
\* ------------------------------------------------------------------------
\* Most watch providers of DUB_PROVIDERS a title is listed with.
MaxProviders == 4

\* translated: an en-US translation with a name or overview; providers: the
\* flatrate and free providers found in DUB_PROVIDERS (one platform pushed
\* for each); spoken: English among spoken_languages; trailers: an English
\* trailer or clip.
tmdbCheckDub(translated, providers, spoken, trailers) ==
    LET c1 == IF translated THEN 10 ELSE 0
        c2 == c1 + 15 * providers
        c3 == IF providers >= 2 THEN Min(c2 + 20, 100)
              ELSE IF providers = 1 THEN Min(c2, 60) ELSE c2
        c4 == IF spoken THEN c3 + 30 ELSE c3
        c5 == IF trailers THEN c4 + 10 ELSE c4
    IN  [hasDub |-> providers >= 1 \/ spoken,
         confidence |-> Min(c5, 100),
         platforms |-> providers]

TmdbCheckDub(translated, providers, spoken, trailers) ==
    /\ returned' = [by |-> "TMDB", hit |-> FALSE,
                    verdict |-> tmdbCheckDub(translated, providers, spoken,
                                             trailers)]
    /\ UNCHANGED <<now, dubCache, dubOverride, fbDub, check>>

\* ------------------------------------------------------------------------
\* Dub resolution on the server: DubService.checkDubStatus
\* ------------------------------------------------------------------------
\* DubService.platformMappings: lower-case site name -> platform name.
platformMappings ==
    ("crunchyroll" :> "Crunchyroll") @@ ("funimation" :> "Funimation")
    @@ ("hidive" :> "HIDIVE") @@ ("netflix" :> "Netflix")
    @@ ("amazon" :> "Amazon") @@ ("amazon prime" :> "Amazon")
    @@ ("amazon prime video" :> "Amazon") @@ ("prime video" :> "Amazon")
    @@ ("hulu" :> "Hulu") @@ ("disney+" :> "Disney+")
    @@ ("disney plus" :> "Disney+") @@ ("adult swim" :> "Adult Swim")
    @@ ("toonami" :> "Adult Swim")

\* String.prototype.toLowerCase on the platform names of the model.
toLowerCase(s) ==
    CASE s = "Crunchyroll" -> "crunchyroll"
      [] s = "Amazon Prime" -> "amazon prime"
      [] s = "Prime Video" -> "prime video"
      [] s = "Amazon" -> "amazon"
      [] OTHER -> s

\* this.platformMappings[site.toLowerCase()], the lower-case name itself
\* where the table has no entry.
PlatformKey(s) ==
    IF toLowerCase(s) \in DOMAIN platformMappings
    THEN platformMappings[toLowerCase(s)]
    ELSE toLowerCase(s)

\* DubService.cacheTTL, in hours.
cacheTTL == 6

\* The sources of checkDubStatus, in the order it asks them.
SourceNames == <<"database", "anilist", "jikan", "livechart">>

\* A source's result: { checked: false } or a checked result.  A platform
\* entry is modelled by its name.
Unchecked == [hasDub |-> FALSE, platforms |-> <<>>, checked |-> FALSE]

Checked(h, p) == [hasDub |-> h, platforms |-> p, checked |-> TRUE]

\* The platform lists the server's adapters may build: names out of
\* platformMappings, one entry pushed per matching stream.
SrvLists == {<<>>, <<"Crunchyroll">>, <<"Amazon", "Amazon">>}

\* checkAniListDub and checkLiveChartDub report hasDub = platforms.length >
\* 0; checkJikanDub also reports a dub for a dubbing licensor alone.
AdapterResults(name) ==
    {Unchecked} \cup {Checked(p # <<>>, p) : p \in SrvLists}
    \cup (IF name = "jikan" THEN {Checked(TRUE, <<>>)} ELSE {})

\* An entry of DubService.dubCache.
NoEntry == [data |-> Unchecked, timestamp |-> -1]

\* { ...result, source: name }
WithSource(r, name) ==
    [hasDub |-> r.hasDub, platforms |-> r.platforms, checked |-> r.checked,
     source |-> name]

\* { ...cached.data, source: 'cache' }
FromCache(data) == WithSource(data, "cache")

\* The rows of an entity in table dubs, in rowid order.
DubRows(id) == SelectSeq(dubs, LAMBDA row : row.anime_id = id)

RECURSIVE RowPlatforms(_)
RowPlatforms(rows) ==
    IF rows = <<>> THEN <<>>
    ELSE <<rows[1].platform>> \o RowPlatforms(Tail(rows))

\* A lookup that does not know the explicit NONE row.
checkDatabaseDubOnlyDubbed(id) ==
    LET dubbed == SelectSeq(DubRows(id), LAMBDA row : row.dub_status # "NONE")
    IN  IF dubbed # <<>> THEN Checked(TRUE, RowPlatforms(dubbed))
        ELSE Unchecked

\* checkDatabaseDub: the rows with a dub, else an explicit NONE row, else
\* not checked.
checkDatabaseDub(id) ==
    LET dubbed == SelectSeq(DubRows(id), LAMBDA row : row.dub_status # "NONE")
    IN  IF dubbed # <<>> THEN Checked(TRUE, RowPlatforms(dubbed))
        ELSE IF DubRows(id) # <<>> THEN Checked(FALSE, <<>>)
        ELSE Unchecked

\* A checkDubStatus call: its position and locals.
IdleSrv == [pc |-> "idle", id |-> 0, idx |-> 1, result |-> Unchecked]

\* The verdict of checkDubStatus when no source has checked.
NoneVerdict ==
    [hasDub |-> FALSE, platforms |-> <<>>, checked |-> TRUE, source |-> "none"]

\* checkDubStatus up to its first await: the cached verdict, or the first
\* source is asked.
checkDubStatus(t, id) ==
    /\ srvCheck[t].pc = "idle"
    /\ LET cached == srvCache[id]
       IN  IF cached # NoEntry /\ now - cached.timestamp < cacheTTL
           THEN /\ returned' = [by |-> "DubService", hit |-> TRUE,
                                verdict |-> FromCache(cached.data)]
                /\ UNCHANGED srvCheck
           ELSE /\ srvCheck' = [srvCheck EXCEPT ![t] =
                        [IdleSrv EXCEPT !.pc = "source", !.id = id]]
                /\ returned' = NoReturn
    /\ UNCHANGED <<now, srvCache, dubs, upd>>

\* One source has answered.  A checked result is cached and ends the loop,
\* anything else moves on to the next source; after the last one the
\* verdict is "none" and nothing is cached.
SourceAnswers(t, res) ==
    /\ srvCheck[t].pc = "source"
    /\ LET id == srvCheck[t].id
           name == SourceNames[srvCheck[t].idx]
           result == IF name = "database" THEN checkDatabaseDub(id) ELSE res
       IN  /\ name = "database" => res = Unchecked
           /\ res \in AdapterResults(name)
           /\ IF result.checked
              THEN /\ srvCache' = [srvCache EXCEPT ![id] =
                                      [data |-> result, timestamp |-> now]]
                   /\ IF name # "database" /\ result.hasDub
                      THEN /\ srvCheck' = [srvCheck EXCEPT ![t] =
                                  [@ EXCEPT !.pc = "save", !.result = result]]
                           /\ returned' = NoReturn
                      ELSE /\ srvCheck' = [srvCheck EXCEPT ![t] = IdleSrv]
                           /\ returned' = [by |-> "DubService", hit |-> FALSE,
                                           verdict |-> WithSource(result, name)]
              ELSE /\ UNCHANGED srvCache
                   /\ IF srvCheck[t].idx < Len(SourceNames)
                      THEN /\ srvCheck' = [srvCheck EXCEPT ![t] =
                                  [@ EXCEPT !.idx = @ + 1]]
                           /\ returned' = NoReturn
                      ELSE /\ srvCheck' = [srvCheck EXCEPT ![t] = IdleSrv]
                           /\ returned' = [by |-> "DubService", hit |-> FALSE,
                                           verdict |-> NoneVerdict]
    /\ UNCHANGED <<now, dubs, upd>>

\* A source's failure that leaves checkDubStatus.
SourceThrowsUncaught(t) ==
    /\ srvCheck[t].pc = "source"
    /\ srvCheck' = [srvCheck EXCEPT ![t] = IdleSrv]
    /\ returned' = [by |-> "thrown", hit |-> FALSE, verdict |-> NoneVerdict]
    /\ UNCHANGED <<now, srvCache, dubs, upd>>

\* A source throws (a rejected query of checkDatabaseDub, a failed request):
\* the catch of the loop keeps the error as lastError and the loop goes on
\* with the next source; after the last one the verdict is "none" (its
\* error field, lastError.message, is not modelled).
SourceThrows(t) ==
    /\ srvCheck[t].pc = "source"
    /\ IF srvCheck[t].idx < Len(SourceNames)
       THEN /\ srvCheck' = [srvCheck EXCEPT ![t] = [@ EXCEPT !.idx = @ + 1]]
            /\ returned' = NoReturn
       ELSE /\ srvCheck' = [srvCheck EXCEPT ![t] = IdleSrv]
            /\ returned' = [by |-> "DubService", hit |-> FALSE,
                            verdict |-> NoneVerdict]
    /\ UNCHANGED <<now, srvCache, dubs, upd>>

\* saveDubToDatabase, then the return.  Its INSERT names the conflict
\* target (anime_id, platform) while the table's constraint is
\* UNIQUE(anime_id, language, platform): SQLite rejects the statement, the
\* error is logged for every platform and no row is written.
saveDubToDatabase(t) ==
    /\ srvCheck[t].pc = "save"
    /\ returned' = [by |-> "DubService", hit |-> FALSE,
                    verdict |-> WithSource(srvCheck[t].result,
                                           SourceNames[srvCheck[t].idx])]
    /\ srvCheck' = [srvCheck EXCEPT ![t] = IdleSrv]
    /\ UNCHANGED <<now, srvCache, dubs, upd>>

\* ------------------------------------------------------------------------
\* DubService.batchCheckDubs
\* ------------------------------------------------------------------------
\* The entities of the server's memo.
BatchIds == {1, 2, 3}

\* The lists a batch may be given, by entity id.
BatchLists == {<<>>, <<1>>, <<1, 1>>, <<1, 2, 3>>}

\* options.concurrency
Concurrencies == {1, 2}

\* What a source may answer during a batch.
BatchAnswers ==
    {Unchecked, Checked(FALSE, <<>>), Checked(TRUE, <<"Crunchyroll">>)}

\* A worker: off (not started), resolving (awaiting checkDubStatus),
\* resumed (checkDubStatus has returned dub), done (left its loop).
IdleWorker == [pc |-> "off", anime |-> 0, dub |-> NoneVerdict]

IdleBatch ==
    [pc |-> "idle", input |-> <<>>, concurrency |-> 0, queue |-> <<>>,
     results |-> <<>>, completed |-> 0,
     worker |-> [w \in DubTasks |-> IdleWorker]]

\* Every worker of the pool is started.
WorkersAll(c) == DubTasks

\* for (let i = 0; i < concurrency; i++) workers.push(worker())
WorkersOf(c) == {w \in DubTasks : w <= c}

\* A result that is dropped.
PushNothing(results, entry) == results

\* results.push({ anime, dub: result })
PushResult(results, entry) == Append(results, entry)

\* The head of a worker's loop, up to its await: with an empty queue the
\* worker ends; else it shifts the next entity off the queue and calls
\* checkDubStatus, which returns the memo's verdict or asks its first
\* source.  st: the batch (b) and the checkDubStatus calls (s) so far.
WorkerLoop(st, w) ==
    IF st.b.queue = <<>>
    THEN [b |-> [st.b EXCEPT !.worker[w] = [IdleWorker EXCEPT !.pc = "done"]],
          s |-> st.s]
    ELSE LET id == Head(st.b.queue)
             cached == srvCache[id]
             hit == cached # NoEntry /\ now - cached.timestamp < cacheTTL
         IN  [b |-> [st.b EXCEPT
                        !.queue = Tail(@),
                        !.worker[w] =
                            IF hit
                            THEN [pc |-> "resumed", anime |-> id,
                                  dub |-> FromCache(cached.data)]
                            ELSE [pc |-> "resolving", anime |-> id,
                                  dub |-> NoneVerdict]],
              s |-> IF hit THEN st.s
                    ELSE [st.s EXCEPT ![w] =
                            [IdleSrv EXCEPT !.pc = "source", !.id = id]]]

\* The workers W are called one after the other, each running up to its
\* first await.
RECURSIVE StartWorkers(_, _)
StartWorkers(st, W) ==
    IF W = {} THEN st
    ELSE LET w == CHOOSE x \in W : \A y \in W : x <= y
         IN  StartWorkers(WorkerLoop(st, w), W \ {w})

\* batchCheckDubs(animeList, { concurrency }) up to await Promise.all.
batchCheckDubs(list, c) ==
    /\ batch.pc = "idle"
    /\ LET st == StartWorkers(
                    [b |-> [IdleBatch EXCEPT !.pc = "running", !.input = list,
                                             !.concurrency = c, !.queue = list],
                     s |-> srvCheck],
                    WorkersOf(c))
       IN  /\ batch' = st.b
           /\ srvCheck' = st.s
    /\ returned' = NoReturn
    /\ UNCHANGED <<now, srvCache, dubs, upd>>

\* The step of checkDubStatus just taken for worker w has returned a
\* verdict: the worker's await is over.
WorkerAwaits(w) ==
    batch' = IF returned'.by = "DubService"
             THEN [batch EXCEPT !.worker[w] =
                     [@ EXCEPT !.pc = "resumed", !.dub = returned'.verdict]]
             ELSE batch

\* The worker goes on after its await: the result is pushed, completed is
\* counted, and the loop is entered again.
WorkerResumes(w) ==
    /\ batch.worker[w].pc = "resumed"
    /\ LET me == batch.worker[w]
           pushed == [batch EXCEPT
                        !.results = PushResult(@, [anime |-> me.anime,
                                                   dub |-> me.dub]),
                        !.completed = @ + 1]
           st == WorkerLoop([b |-> pushed, s |-> srvCheck], w)
       IN  /\ batch' = st.b
           /\ srvCheck' = st.s
    /\ returned' = NoReturn
    /\ UNCHANGED <<now, srvCache, dubs, upd>>

\* Promise.all(workers) resolves: return results.
BatchReturns ==
    /\ batch.pc = "running"
    /\ \A w \in DubTasks : batch.worker[w].pc \in {"off", "done"}
    /\ batch' = [batch EXCEPT !.pc = "returned"]
    /\ returned' = NoReturn
    /\ UNCHANGED <<now, srvCache, dubs, srvCheck, upd>>

\* AnimeService.updateDubStatus, its SELECT.
IdleUpd == [pc |-> "idle", id |-> 0, platform |-> "", status |-> "", existing |-> 0]

UpdateDubSelect(id, platform, status) ==
    /\ upd.pc = "idle"
    /\ LET found == {i \in DOMAIN dubs :
                        dubs[i].anime_id = id /\ dubs[i].platform = platform}
       IN  upd' = [pc |-> "write", id |-> id, platform |-> platform,
                   status |-> status,
                   existing |-> IF found = {} THEN 0 ELSE CHOOSE i \in found : TRUE]
    /\ returned' = NoReturn
    /\ UNCHANGED <<now, srvCache, srvCheck, dubs>>

\* AnimeService.updateDubStatus, its UPDATE or INSERT.
UpdateDubWrite ==
    /\ upd.pc = "write"
    /\ dubs' = IF upd.existing # 0
               THEN [dubs EXCEPT ![upd.existing] = [@ EXCEPT !.dub_status = upd.status]]
               ELSE Append(dubs, [anime_id |-> upd.id, platform |-> upd.platform,
                                  dub_status |-> upd.status])
    /\ upd' = IdleUpd
    /\ returned' = NoReturn
    /\ UNCHANGED <<now, srvCache, srvCheck>>

\* Time passes.
Tick(hours) ==
    /\ now + hours <= MaxHours
    /\ now' = now + hours
    /\ returned' = NoReturn
    /\ UNCHANGED clientVars
    /\ UNCHANGED srvVars
    /\ UNCHANGED syncVars
    /\ UNCHANGED netVars
    /\ UNCHANGED batch
    /\ UNCHANGED appVars

InitDub ==
    /\ now = 0
    /\ dubCache = [id \in DubIds |-> NoVerdict]
    /\ dubOverride = [id \in DubIds |-> NoOverride]
    /\ fbDub = [id \in DubIds |-> NoVerdict]
    /\ check = [t \in DubTasks |-> IdleCheck]
    /\ returned = NoReturn
    /\ srvCache = [id \in BatchIds |-> NoEntry]
    /\ dubs = <<>>
    /\ srvCheck = [t \in DubTasks |-> IdleSrv]
    /\ upd = IdleUpd
    /\ batch = IdleBatch

\* ------------------------------------------------------------------------
\* AniListService.graphqlRequest
\* ------------------------------------------------------------------------
\* Most POSTs of one graphqlRequest call the model follows.
MaxRequests == 3

\* The longest a request is in flight, and the latest a timer fires after
\* its delay, in milliseconds.
MaxLatency == 1000

\* The retry-after header of a 429 answer: "" where the answer has none,
\* decimal seconds, or an HTTP date.
RetryAfterHeaders == {"", "1", "2", "Sun, 01 Nov 2026 00:00:00 GMT"}

\* What a successful answer may carry as response.data.
Payloads == {"page", "media"}

\* parseInt on the header values of the model.
parseInt(s) ==
    CASE s = "1" -> 1
      [] s = "2" -> 2
      [] s = "60" -> 60
      [] OTHER -> -1  \* NaN

\* A retry on the spot.
retryAfterNone(header) == 0

\* parseInt(error.response.headers['retry-after'] || '60')
retryAfterOf(header) == parseInt(IF header = "" THEN "60" ELSE header)

\* The delay of setTimeout(resolve, ms): NaN counts as no delay.
TimeoutOf(ms) == IF ms < 0 THEN 0 ELSE ms

\* The graphqlRequest call: its position, the times of its POSTs, the
\* answers they got, the time its sleep ends, and what it gave its caller.
IdleGql ==
    [pc |-> "idle", sentAt |-> <<>>, answers |-> <<>>, wakeAt |-> 0,
     outcome |-> [kind |-> "none", data |-> ""]]

Answer429(header, at) == [status |-> 429, header |-> header, data |-> "", at |-> at]

AnswerOk(data, at) == [status |-> 200, header |-> "", data |-> data, at |-> at]

AnswerError(at) == [status |-> 500, header |-> "", data |-> "", at |-> at]

\* graphqlRequest is called: axios.post is sent.
graphqlRequest ==
    /\ gql.pc = "idle"
    /\ gql' = [IdleGql EXCEPT !.pc = "post", !.sentAt = <<clock>>]
    /\ UNCHANGED <<clock, jikan>>

\* The upstream answers with data: return response.data.
GqlData(data) ==
    /\ gql.pc = "post"
    /\ gql' = [gql EXCEPT !.pc = "returned",
                          !.answers = Append(@, AnswerOk(data, clock)),
                          !.outcome = [kind |-> "data", data |-> data]]
    /\ UNCHANGED <<clock, jikan>>

\* The upstream answers 429: sleep(retryAfter * 1000).
GqlRateLimited(header) ==
    /\ gql.pc = "post"
    /\ gql' = [gql EXCEPT !.pc = "sleep",
                          !.answers = Append(@, Answer429(header, clock)),
                          !.wakeAt = clock + TimeoutOf(retryAfterOf(header) * 1000)]
    /\ UNCHANGED <<clock, jikan>>

\* Any other failure of the request is thrown to the caller.
GqlError ==
    /\ gql.pc = "post"
    /\ gql' = [gql EXCEPT !.pc = "thrown",
                          !.answers = Append(@, AnswerError(clock)),
                          !.outcome = [kind |-> "error", data |-> ""]]
    /\ UNCHANGED <<clock, jikan>>

\* The sleep is over: return this.graphqlRequest(query, variables), whose
\* outcome becomes the outcome of this call.
GqlRetry ==
    /\ gql.pc = "sleep"
    /\ clock >= gql.wakeAt
    /\ Len(gql.sentAt) < MaxRequests
    /\ gql' = [gql EXCEPT !.pc = "post", !.sentAt = Append(@, clock)]
    /\ UNCHANGED <<clock, jikan>>

\* Time passes while the request is in flight or the call sleeps.
GqlElapse(ms) ==
    /\ \/ /\ gql.pc = "post"
          /\ clock + ms <= gql.sentAt[Len(gql.sentAt)] + MaxLatency
       \/ /\ gql.pc = "sleep"
          /\ clock + ms <= gql.wakeAt + MaxLatency
    /\ clock' = clock + ms
    /\ UNCHANGED <<gql, jikan>>

\* The steps of one graphqlRequest call.
FetchNext ==
    \/ graphqlRequest /\ UNCHANGED <<syncVars, LocalDubVars>>
    \/ \E data \in Payloads : GqlData(data) /\ UNCHANGED <<syncVars, LocalDubVars>>
    \/ \E header \in RetryAfterHeaders :
          GqlRateLimited(header) /\ UNCHANGED <<syncVars, LocalDubVars>>
    \/ GqlError /\ UNCHANGED <<syncVars, LocalDubVars>>
    \/ GqlRetry /\ UNCHANGED <<syncVars, LocalDubVars>>
    \/ \E ms \in {1000, 60000} :
          GqlElapse(ms) /\ UNCHANGED <<syncVars, LocalDubVars>>

\* ------------------------------------------------------------------------
\* DubService.checkJikanDub: the rate limit of the community API
\* ------------------------------------------------------------------------
\* DubService.jikanRateLimit, in milliseconds.
jikanRateLimit == 1000

\* The pause of checkJikanDub after a 429, in milliseconds.
jikanBackoff == 2000

\* The checkJikanDub calls that may be in flight together (the workers of
\* batchCheckDubs).
JikanCallers == {1, 2}

\* Most requests to the community API the model follows.
MaxJikanRequests == 3

\* The clock of the rate limit model stops here, in milliseconds.
MaxJikanClock == 4000

\* A checkJikanDub call: its position and the time its sleep ends.
IdleJikan == [pc |-> "idle", wakeAt |-> 0]

\* this.lastJikanRequest = Date.now(), then fetch(...) is sent.
JikanSend(w) ==
    [jikan EXCEPT !.last = clock,
                  !.sentAt = Append(@, clock),
                  !.call[w] = [pc |-> "fetch", wakeAt |-> 0]]

\* The head of checkJikanDub: the time since the last request is read; the
\* call sleeps for what is missing to the rate limit, or sends at once.
JikanRateLimit(w) ==
    LET timeSinceLastRequest == clock - jikan.last
    IN  IF timeSinceLastRequest < jikanRateLimit
        THEN jikan' = [jikan EXCEPT !.call[w] =
                          [pc |-> "sleep",
                           wakeAt |-> clock + (jikanRateLimit - timeSinceLastRequest)]]
        ELSE /\ Len(jikan.sentAt) < MaxJikanRequests
             /\ jikan' = JikanSend(w)

\* checkJikanDub(malId) is called with a MAL id.
checkJikanDub(w) ==
    /\ jikan.call[w].pc = "idle"
    /\ JikanRateLimit(w)
    /\ UNCHANGED <<clock, gql>>

\* The sleep of the rate limit is over: the request is sent.
JikanWake(w) ==
    /\ jikan.call[w].pc = "sleep"
    /\ clock >= jikan.call[w].wakeAt
    /\ Len(jikan.sentAt) < MaxJikanRequests
    /\ jikan' = JikanSend(w)
    /\ UNCHANGED <<clock, gql>>

\* The API answers.  429: sleep(2000) before the call is made again; any
\* other answer ends the call with a result ({ checked: false } included).
JikanAnswers(w, status) ==
    /\ jikan.call[w].pc = "fetch"
    /\ jikan' = [jikan EXCEPT !.call[w] =
                    IF status = 429
                    THEN [pc |-> "backoff", wakeAt |-> clock + jikanBackoff]
                    ELSE IdleJikan]
    /\ UNCHANGED <<clock, gql>>

\* return this.checkJikanDub(malId) after the pause.
JikanRetry(w) ==
    /\ jikan.call[w].pc = "backoff"
    /\ clock >= jikan.call[w].wakeAt
    /\ JikanRateLimit(w)
    /\ UNCHANGED <<clock, gql>>

\* Time passes.
JikanElapse(ms) ==
    /\ clock + ms <= MaxJikanClock
    /\ clock' = clock + ms
    /\ UNCHANGED <<gql, jikan>>

\* The steps of concurrent checkJikanDub calls.
JikanNext ==
    \/ \E w \in JikanCallers :
        \/ checkJikanDub(w) /\ UNCHANGED <<syncVars, LocalDubVars>>
        \/ JikanWake(w) /\ UNCHANGED <<syncVars, LocalDubVars>>
        \/ \E status \in {200, 429, 500} :
              JikanAnswers(w, status) /\ UNCHANGED <<syncVars, LocalDubVars>>
        \/ JikanRetry(w) /\ UNCHANGED <<syncVars, LocalDubVars>>
    \/ \E ms \in {500, 1000} : JikanElapse(ms) /\ UNCHANGED <<syncVars, LocalDubVars>>

\* Date.now() is far from lastJikanRequest = 0 when the service starts: the
\* first request does not wait.
InitNet ==
    /\ clock = jikanRateLimit
    /\ gql = IdleGql
    /\ jikan = [last |-> 0, sentAt |-> <<>>,
                call |-> [w \in JikanCallers |-> IdleJikan]]

\* The browser and the server share no state: the browser moves while the
\* server is as it started, and the other way round, so that a behaviour
\* follows one of the two programs.
BrowserAtRest ==
    /\ dubCache = [id \in DubIds |-> NoVerdict]
    /\ dubOverride = [id \in DubIds |-> NoOverride]
    /\ fbDub = [id \in DubIds |-> NoVerdict]
    /\ check = [t \in DubTasks |-> IdleCheck]

ServerAtRest ==
    /\ batch = IdleBatch
    /\ srvCache = [id \in BatchIds |-> NoEntry]
    /\ dubs = <<>>
    /\ srvCheck = [t \in DubTasks |-> IdleSrv]
    /\ upd = IdleUpd

BrowserStep ==
    /\ ServerAtRest
    /\ UNCHANGED srvVars /\ UNCHANGED syncVars /\ UNCHANGED netVars
    /\ UNCHANGED batch /\ UNCHANGED appVars

ServerStep ==
    /\ BrowserAtRest
    /\ UNCHANGED clientVars /\ UNCHANGED syncVars /\ UNCHANGED netVars
    /\ UNCHANGED batch /\ UNCHANGED appVars

\* A step of batchCheckDubs and its workers.
BatchStep ==
    /\ BrowserAtRest
    /\ UNCHANGED clientVars /\ UNCHANGED syncVars /\ UNCHANGED netVars
    /\ UNCHANGED appVars

\* ------------------------------------------------------------------------
\* UserService.updateProgress
\* ------------------------------------------------------------------------
\* The updateProgress calls that may be in flight together (two requests of
\* the same user for the same anime).
ProgressCalls == {1, 2}

\* Most updateProgress calls the model follows.
MaxUpdates == 3

\* An updateProgress call: its position, its argument, the last_episode it
\* has read, and history: the last_episode stored when its upsert ran.
IdleProgress ==
    [pc |-> "idle", lastEpisode |-> 0, previousEpisode |-> 0, stored |-> 0]

\* The row of user_progress: last_episode, or no row.
NoProgress == [exists |-> FALSE, last_episode |-> 0]

\* const previousEpisode = current?.last_episode || 0
previousEpisodeOf(current) == IF current.exists THEN current.last_episode ELSE 0

\* if (lastEpisode > previousEpisode)
episodeIncreased(lastEpisode, previousEpisode) == lastEpisode > previousEpisode

\* updateProgress(userId, animeId, lastEpisode): getProgressByAnime reads
\* the row.  (user_status and the anime's total_episodes, which decide the
\* status written, are left out.)
updateProgress(c, lastEpisode) ==
    /\ usr.call[c].pc = "idle"
    /\ usr.started < MaxUpdates
    /\ usr' = [usr EXCEPT
                 !.started = @ + 1,
                 !.call[c] = [pc |-> "upsert", lastEpisode |-> lastEpisode,
                              previousEpisode |-> previousEpisodeOf(usr.progress),
                              stored |-> 0]]

\* INSERT INTO user_progress ... ON CONFLICT(user_id, anime_id) DO UPDATE SET
\* last_episode = ?; then the test for the session entry.  A call that
\* logs nothing returns here.
ProgressUpsert(c) ==
    /\ usr.call[c].pc = "upsert"
    /\ LET me == usr.call[c]
       IN  usr' = [usr EXCEPT
                     !.progress = [exists |-> TRUE, last_episode |-> me.lastEpisode],
                     !.call[c] =
                         IF episodeIncreased(me.lastEpisode, me.previousEpisode)
                         THEN [me EXCEPT !.pc = "log",
                                         !.stored = previousEpisodeOf(usr.progress)]
                         ELSE IdleProgress]

\* logSession(userId, animeId, previousEpisode + 1, lastEpisode), then the
\* return.
logSession(c) ==
    /\ usr.call[c].pc = "log"
    /\ LET me == usr.call[c]
       IN  usr' = [usr EXCEPT
                     !.sessions = Append(@, [from_episode |-> me.previousEpisode + 1,
                                             to_episode |-> me.lastEpisode]),
                     !.call[c] = IdleProgress]

\* incrementEpisode(userId, animeId): getProgressByAnime reads the row.
incrementEpisode(c) ==
    /\ usr.call[c].pc = "idle"
    /\ usr.started
         + Cardinality({d \in ProgressCalls : usr.call[d].pc = "increment"})
         < MaxUpdates
    /\ usr' = [usr EXCEPT
                 !.call[c] = [IdleProgress EXCEPT
                                !.pc = "increment",
                                !.lastEpisode = previousEpisodeOf(usr.progress) + 1]]

\* incrementEpisode after its await: updateProgress(userId, animeId,
\* currentEpisode + 1) reads the row again.
incrementUpdates(c) ==
    /\ usr.call[c].pc = "increment"
    /\ usr' = [usr EXCEPT
                 !.started = @ + 1,
                 !.call[c] = [@ EXCEPT !.pc = "upsert",
                                       !.previousEpisode = previousEpisodeOf(usr.progress)]]

\* The steps of the +1 requests of one user for one anime.
IncrementNext ==
    \E c \in ProgressCalls :
        \/ incrementEpisode(c)
           /\ UNCHANGED <<syncVars, now, clientVars, returned, srvVars, batch, netVars, bsync, lc, pageVars>>
        \/ incrementUpdates(c)
           /\ UNCHANGED <<syncVars, now, clientVars, returned, srvVars, batch, netVars, bsync, lc, pageVars>>
        \/ ProgressUpsert(c)
           /\ UNCHANGED <<syncVars, now, clientVars, returned, srvVars, batch, netVars, bsync, lc, pageVars>>
        \/ logSession(c)
           /\ UNCHANGED <<syncVars, now, clientVars, returned, srvVars, batch, netVars, bsync, lc, pageVars>>

\* ------------------------------------------------------------------------
\* The browser's catalog sync: AnimeSync.runSync
\* ------------------------------------------------------------------------
\* Most runSync calls the model follows.
MaxSyncs == 2

\* The pages of the current season and of the next one, as the upstream
\* serves them (Page.media of each page; hasNextPage on all but the last).
BrowserSeason == << <<1, 2>>, <<3>> >>

BrowserUpcoming == << <<4>> >>

BrowserLayout(phase) == IF phase = "current" THEN BrowserSeason ELSE BrowserUpcoming

\* syncLog/lastSync before the first sync.
NoSync == [type |-> "none", added |-> 0, updated |-> 0, total |-> 0]

\* checkSyncNeeded: the sync type for the hours since lastSync, "" when no
\* sync is needed.
checkSyncNeeded(hoursSinceSync) ==
    IF bsync.lastSync = NoSync THEN "full"
    ELSE IF hoursSinceSync >= 24 THEN "daily"
    ELSE IF hoursSinceSync >= 6 THEN "partial"
    ELSE IF hoursSinceSync >= 1 THEN "quick"
    ELSE ""

\* A runSync call at rest; the store and lastSync are kept.
SyncAtRest(rec, outcome) ==
    [rec EXCEPT !.pc = "idle", !.outcome = outcome, !.phase = "current",
                !.page = 1, !.allAnime = <<>>, !.idx = 1]

\* fullSeasonSync after the items of one season are saved: the next
\* season's fetch, or the return of { added, updated, total }.
AfterSeason(rec) ==
    LET counted == [rec EXCEPT !.total = @ + Len(rec.allAnime),
                               !.allAnime = <<>>, !.idx = 1, !.page = 1]
    IN  IF rec.phase = "current"
        THEN [counted EXCEPT !.phase = "next", !.pc = "fetch"]
        ELSE [counted EXCEPT !.pc = "mark"]

\* fetchSeasonAnime returns allAnime: the save loop over it, or what
\* follows the loop when the list is empty.
AfterFetch(rec) ==
    IF rec.allAnime = <<>> THEN AfterSeason(rec)
    ELSE [rec EXCEPT !.pc = "save", !.idx = 1]

\* runSync(forceType): forceType, or checkSyncNeeded's answer for the hours
\* since lastSync.  (The types 'daily' and 'partial' are not followed.)
runSync(forceType, hoursSinceSync) ==
    /\ bsync.pc = "idle"
    /\ bsync.runs < MaxSyncs
    /\ LET type == IF forceType # "" THEN forceType
                   ELSE checkSyncNeeded(hoursSinceSync)
           rec == [bsync EXCEPT !.runs = @ + 1, !.type = type, !.added = 0,
                                !.updated = 0, !.total = 0, !.truncated = FALSE]
       IN  /\ type \in {"", "full", "quick"}
           /\ bsync' = CASE type = "" -> SyncAtRest(rec, "skipped")
                         [] type = "full" ->
                              [rec EXCEPT !.pc = "fetch", !.phase = "current",
                                          !.outcome = "none"]
                         [] OTHER -> [rec EXCEPT !.pc = "mark", !.outcome = "none"]

\* fetchSeasonAnime, one turn of the loop with an answer: the page's media
\* are appended, hasNextPage decides whether the loop goes on.
fetchSeasonAnime ==
    /\ bsync.pc = "fetch"
    /\ LET layout == BrowserLayout(bsync.phase)
           got == [bsync EXCEPT !.allAnime = @ \o layout[bsync.page]]
       IN  bsync' = IF bsync.page < Len(layout)
                    THEN [got EXCEPT !.page = @ + 1]
                    ELSE AfterFetch(got)

\* fetchSeasonAnime, one turn of the loop without an answer: data.errors is
\* set, or fetch / response.json() / the read of data.data.Page throws; both
\* branches break out of the loop and allAnime is returned as it is.
fetchSeasonAnimeBreaks ==
    /\ bsync.pc = "fetch"
    /\ bsync' = AfterFetch([bsync EXCEPT !.truncated = TRUE])

\* saveAnime(allAnime[i]) inside fullSeasonSync: isNew from the existence
\* of the key, update, added++ or updated++.
saveSeasonAnime ==
    /\ bsync.pc = "save"
    /\ LET item == bsync.allAnime[bsync.idx]
           isNew == item \notin bsync.saved
           rec == [bsync EXCEPT !.saved = @ \cup {item},
                                !.added = IF isNew THEN @ + 1 ELSE @,
                                !.updated = IF isNew THEN @ ELSE @ + 1]
       IN  bsync' = IF bsync.idx < Len(bsync.allAnime)
                    THEN [rec EXCEPT !.idx = @ + 1]
                    ELSE AfterSeason(rec)

\* saveAnime rejects: fullSeasonSync rejects, runSync's catch reports
\* 'Sync failed' and rethrows.
saveSeasonAnimeFails ==
    /\ bsync.pc = "save"
    /\ bsync' = SyncAtRest(bsync, "threw")

\* refs.syncLog.child('lastSync').set({ timestamp, type, result }), then
\* updateProgress(100, 'Sync complete!') and return result.
markSynced ==
    /\ bsync.pc = "mark"
    /\ bsync' = [SyncAtRest(bsync, "returned") EXCEPT
                    !.lastSync = [type |-> bsync.type, added |-> bsync.added,
                                  updated |-> bsync.updated, total |-> bsync.total]]

\* ------------------------------------------------------------------------
\* The season page's local cache: localCache, loadAnimeWithSync
\* ------------------------------------------------------------------------
\* Times are minutes of local time, counted from 1 January of EpochYear.
\* The years of the dates the page is opened on.
FirstYear == 2024

OpenYears == {FirstYear, FirstYear + 1}

EpochYear == FirstYear - 1

\* The years of the seasons chosen: past, present and future years.
SeasonYears == EpochYear..(FirstYear + 1)

\* const seasons = ['WINTER', 'SPRING', 'SUMMER', 'FALL']
seasons == <<"WINTER", "SPRING", "SUMMER", "FALL">>

\* seasons.indexOf(season)
indexOf(season) == CHOOSE i \in 0..3 : seasons[i + 1] = season

EXPIRY_CURRENT == 15

EXPIRY_RECENT == 120

EXPIRY_OLD == 10080

IsLeapYear(y) == (y % 4 = 0 /\ y % 100 # 0) \/ y % 400 = 0

\* The days of month m (0 = January) of year y.
DaysInMonth(y, m) ==
    IF m = 1 THEN (IF IsLeapYear(y) THEN 29 ELSE 28)
    ELSE IF m \in {3, 5, 8, 10} THEN 30 ELSE 31

RECURSIVE DaysBeforeYear(_)
DaysBeforeYear(y) ==
    IF y <= EpochYear THEN 0
    ELSE DaysBeforeYear(y - 1) + (IF IsLeapYear(y - 1) THEN 366 ELSE 365)

RECURSIVE DaysBeforeMonth(_, _)
DaysBeforeMonth(y, m) ==
    IF m = 0 THEN 0 ELSE DaysBeforeMonth(y, m - 1) + DaysInMonth(y, m - 1)

\* new Date(year, monthIndex, day): midnight of that day; a monthIndex of 12
\* is January of the next year.
MonthStart ==
    [y \in EpochYear..(FirstYear + 4), m \in 0..11 |->
        (DaysBeforeYear(y) + DaysBeforeMonth(y, m)) * 1440]

newDate(year, monthIndex, day) ==
    MonthStart[year + (monthIndex \div 12), monthIndex % 12] + (day - 1) * 1440

\* The year and the month that day number days (0: 1 January of y, or the
\* first of month m of y) falls in.
RECURSIVE YearOfDay(_, _)
YearOfDay(days, y) ==
    LET length == IF IsLeapYear(y) THEN 366 ELSE 365
    IN  IF days < length THEN y ELSE YearOfDay(days - length, y + 1)

RECURSIVE DayOfYear(_, _)
DayOfYear(days, y) ==
    LET length == IF IsLeapYear(y) THEN 366 ELSE 365
    IN  IF days < length THEN days ELSE DayOfYear(days - length, y + 1)

RECURSIVE MonthOfDay(_, _, _)
MonthOfDay(days, y, m) ==
    IF days < DaysInMonth(y, m) THEN m
    ELSE MonthOfDay(days - DaysInMonth(y, m), y, m + 1)

\* new Date(t).getFullYear()
getFullYear(t) == YearOfDay(t \div 1440, EpochYear)

\* new Date(t).getMonth()
getMonth(t) == MonthOfDay(DayOfYear(t \div 1440, EpochYear), getFullYear(t), 0)

\* Math.floor((month - 1) / 3) with month = getMonth() + 1
currentSeasonIdx(t) == getMonth(t) \div 3

\* isCurrentSeason(season, year) at time t
isCurrentSeason(season, year, t) ==
    season = seasons[currentSeasonIdx(t) + 1] /\ year = getFullYear(t)

\* isFinishedSeason(season, year) at time t
isFinishedSeason(season, year, t) ==
    IF year < getFullYear(t) THEN TRUE
    ELSE IF year = getFullYear(t) THEN indexOf(season) < currentSeasonIdx(t)
    ELSE FALSE

\* An expiry that knows no old seasons.
getCacheExpiryRecentOnly(season, year, t) ==
    IF isCurrentSeason(season, year, t) THEN EXPIRY_CURRENT
    ELSE IF isFinishedSeason(season, year, t) THEN EXPIRY_RECENT
    ELSE EXPIRY_CURRENT

\* getCacheExpiry(season, year) at time t.  monthsAgo > 6 with
\* monthsAgo = (now - seasonEndDate) / (30 days).
getCacheExpiry(season, year, t) ==
    IF isCurrentSeason(season, year, t) THEN EXPIRY_CURRENT
    ELSE IF isFinishedSeason(season, year, t)
    THEN LET seasonEndMonth == (indexOf(season) + 1) * 3
             seasonEndDate == newDate(year, seasonEndMonth, 1)
         IN  IF t - seasonEndDate > 6 * (30 * 1440)
             THEN EXPIRY_OLD
             ELSE EXPIRY_RECENT
    ELSE EXPIRY_CURRENT

\* No item under the season's key.
NoSnapshot == [present |-> FALSE, timestamp |-> 0, isFinished |-> FALSE]

\* localCache.get(season, year, ignoreExpiry) at time t: "anime" for
\* data.anime, "null" for null.
localCacheGet(season, year, ignoreExpiry, t) ==
    IF ~lc.stored.present THEN "null"
    ELSE LET age == t - lc.stored.timestamp
             expiry == getCacheExpiry(season, year, t)
         IN  IF isFinishedSeason(season, year, t) \/ ignoreExpiry THEN "anime"
             ELSE IF age > expiry THEN "null"
             ELSE "anime"

\* localCache.save(season, year, list) and the write of mergeUpdates, at
\* time t.  (mergeUpdates keeps the isFinished of the item it finds.)
localCacheSave(season, year, t) ==
    [present |-> TRUE, timestamp |-> t, isFinished |-> isFinishedSeason(season, year, t)]

mergeUpdates(season, year, t) ==
    IF lc.stored.present THEN [lc.stored EXCEPT !.timestamp = t]
    ELSE localCacheSave(season, year, t)

\* refreshFromFirebaseInBackground up to its first await: TRUE when it
\* returns without a query.
refreshSkips(season, year, t) ==
    /\ lc.stored.present
    /\ isFinishedSeason(season, year, t)
    /\ t - lc.stored.timestamp < EXPIRY_RECENT

\* loadAnimeWithSync: a hit is rendered and refreshFromFirebaseInBackground
\* is started (it skips or sends its query); a miss goes on to loadAnime.
\* (Snapshots hold at least one title; the sync of a season that Firebase
\* lacks is left out.)
loadAnimeWithSync ==
    /\ lc.pc = "idle"
    /\ LET useIgnoreExpiry == isFinishedSeason(lc.season, lc.year, lc.t)
           cachedAnime == localCacheGet(lc.season, lc.year, useIgnoreExpiry, lc.t)
       IN  lc' = [lc EXCEPT
                    !.got = cachedAnime,
                    !.pc = IF cachedAnime = "null" THEN "load"
                           ELSE IF refreshSkips(lc.season, lc.year, lc.t) THEN "idle"
                           ELSE "refresh"]

\* loadAnime: a hit of localCache.get(season, year) is rendered; a miss
\* sends the query.
loadAnime ==
    /\ lc.pc = "load"
    /\ LET cachedAnime == localCacheGet(lc.season, lc.year, FALSE, lc.t)
       IN  lc' = [lc EXCEPT !.got = cachedAnime,
                            !.pc = IF cachedAnime = "null" THEN "query" ELSE "idle"]

\* loadAnime, the query's answer: localCache.save and render.
loadAnimeSaves ==
    /\ lc.pc = "query"
    /\ lc' = [lc EXCEPT !.stored = localCacheSave(lc.season, lc.year, lc.t),
                        !.pc = "idle"]

\* refreshFromFirebaseInBackground, the query's answer: mergeUpdates.
refreshMerges ==
    /\ lc.pc = "refresh"
    /\ lc' = [lc EXCEPT !.stored = mergeUpdates(lc.season, lc.year, lc.t),
                        !.pc = "idle"]

\* A query rejects: loadAnime shows an error, the background refresh logs
\* a warning.
seasonQueryFails ==
    /\ lc.pc \in {"query", "refresh"}
    /\ lc' = [lc EXCEPT !.pc = "idle"]

\* The time that may pass between two steps of the page.
Durations == {10, 16, 180, 10081}

MaxElapses == 1

\* Time passes while the page is at rest.
Elapse(d) ==
    /\ lc.pc = "idle"
    /\ lc.elapses < MaxElapses
    /\ lc' = [lc EXCEPT !.t = @ + d, !.elapses = @ + 1]

\* The days the page is first opened on: the first of each month and the
\* days around 180 days after the end of a season.
OpenDays == {1, 28, 29, 30}

OpenTimes == {newDate(y, m, d) : y \in OpenYears, m \in 0..11, d \in OpenDays}

InitLocalCache ==
    \E t \in OpenTimes, season \in {seasons[i] : i \in 1..4}, year \in SeasonYears :
        lc = [t |-> t, season |-> season, year |-> year, stored |-> NoSnapshot,
              got |-> "none", pc |-> "idle", elapses |-> 0]

\* The steps of the season page.
LocalCacheNext ==
    \/ loadAnimeWithSync
       /\ UNCHANGED <<syncVars, now, clientVars, returned, srvVars, batch, netVars, usr, bsync, pageVars>>
    \/ loadAnime
       /\ UNCHANGED <<syncVars, now, clientVars, returned, srvVars, batch, netVars, usr, bsync, pageVars>>
    \/ loadAnimeSaves
       /\ UNCHANGED <<syncVars, now, clientVars, returned, srvVars, batch, netVars, usr, bsync, pageVars>>
    \/ refreshMerges
       /\ UNCHANGED <<syncVars, now, clientVars, returned, srvVars, batch, netVars, usr, bsync, pageVars>>
    \/ seasonQueryFails
       /\ UNCHANGED <<syncVars, now, clientVars, returned, srvVars, batch, netVars, usr, bsync, pageVars>>
    \/ \E d \in Durations : Elapse(d)
       /\ UNCHANGED <<syncVars, now, clientVars, returned, srvVars, batch, netVars, usr, bsync, pageVars>>

\* ------------------------------------------------------------------------
\* localCache.mergeUpdates
\* ------------------------------------------------------------------------
\* A field the object lacks.
Undefined == "undefined"

NoPlatforms == [defined |-> FALSE, list |-> <<>>]

\* The anime objects of one id, as Firebase or the cache may hold them:
\* status stands for the fields hasChanges compares, title for the others;
\* the dub fields may be missing.
Entities(id) ==
    [id : {id}, status : {"RELEASING", "FINISHED"}, title : {"A", "B"},
     hasDub : {Undefined, "true", "false"},
     dubPlatforms : {NoPlatforms, [defined |-> TRUE, list |-> <<>>],
                     [defined |-> TRUE, list |-> <<"Crunchyroll">>]},
     dubConfidence : {-1, 80},
     dubCheckedAt : {-1, 5}]

\* hasChanges(existing, fresh): some compared field differs.
hasChanges(existing, fresh) == existing.status # fresh.status

\* A merge that takes the fresh object as it is.
freshEntity(existing, fresh) == fresh

\* { ...existing, ...fresh, hasDub: ..., dubPlatforms: ..., dubConfidence:
\* ..., dubCheckedAt: ... } (-1: the number is missing).
mergeEntity(existing, fresh) ==
    [id |-> fresh.id, status |-> fresh.status, title |-> fresh.title,
     hasDub |-> IF fresh.hasDub # Undefined THEN fresh.hasDub ELSE existing.hasDub,
     dubPlatforms |-> IF fresh.dubPlatforms.defined /\ Len(fresh.dubPlatforms.list) > 0
                      THEN fresh.dubPlatforms ELSE existing.dubPlatforms,
     dubConfidence |-> IF fresh.dubConfidence # -1 THEN fresh.dubConfidence
                       ELSE existing.dubConfidence,
     dubCheckedAt |-> IF fresh.dubCheckedAt # -1 THEN fresh.dubCheckedAt
                      ELSE existing.dubCheckedAt]

\* The ids of a list, and the position of an id in it (0: not there).
IdsOf(list) == {list[k].id : k \in 1..Len(list)}

PosOf(list, id) ==
    IF id \in IdsOf(list) THEN CHOOSE k \in 1..Len(list) : list[k].id = id ELSE 0

\* The loop of mergeUpdates over freshAnime[k..]: map is existingMap as a
\* list in insertion order, counts the three counters.
RECURSIVE MergeLoop(_, _, _, _)
MergeLoop(map, freshAnime, k, counts) ==
    IF k > Len(freshAnime) THEN [anime |-> map, counts |-> counts]
    ELSE LET fresh == freshAnime[k]
             at == PosOf(map, fresh.id)
         IN  IF at = 0
             THEN MergeLoop(Append(map, fresh), freshAnime, k + 1,
                            [counts EXCEPT !.added = @ + 1])
             ELSE IF hasChanges(map[at], fresh)
             THEN MergeLoop([map EXCEPT ![at] = mergeEntity(map[at], fresh)],
                            freshAnime, k + 1, [counts EXCEPT !.updated = @ + 1])
             ELSE MergeLoop(map, freshAnime, k + 1,
                            [counts EXCEPT !.unchanged = @ + 1])

NoCounts == [added |-> 0, updated |-> 0, unchanged |-> 0]

\* localCache.mergeUpdates(season, year, freshAnime): without an item the
\* fresh list is saved; otherwise the merged list is written back.
mergeUpdatesCall ==
    /\ mrg.pc = "call"
    /\ IF ~mrg.stored.present
       THEN mrg' = [mrg EXCEPT !.stored = [present |-> TRUE, anime |-> mrg.fresh],
                               !.result = [NoCounts EXCEPT !.added = Len(mrg.fresh)],
                               !.pc = "saved"]
       ELSE LET merged == MergeLoop(mrg.stored.anime, mrg.fresh, 1, NoCounts)
            IN  mrg' = [mrg EXCEPT !.stored = [present |-> TRUE, anime |-> merged.anime],
                                   !.result = merged.counts,
                                   !.pc = "merged"]

\* mergeUpdates, the item cannot be parsed or the write throws: the catch
\* saves the fresh list in place of the item.
mergeUpdatesFallback ==
    /\ mrg.pc = "call"
    /\ mrg.stored.present
    /\ mrg' = [mrg EXCEPT !.stored = [present |-> TRUE, anime |-> mrg.fresh],
                          !.result = [NoCounts EXCEPT !.added = Len(mrg.fresh)],
                          !.pc = "fallback"]

\* ------------------------------------------------------------------------
\* localCache over all its keys
\* ------------------------------------------------------------------------
\* LOCAL_CACHE.MAX_SEASONS
MAX_SEASONS == 8

\* const maxAge = 30 * 24 * 60 * 60 * 1000, in minutes
maxAge == 43200

\* The seasons a key may name: FALL of EpochYear up to WINTER of the year
\* after next, in order.
StoreKeys ==
    {[season |-> "FALL", year |-> EpochYear],
     [season |-> "WINTER", year |-> FirstYear + 2]}
    \cup [season : {seasons[i] : i \in 1..4}, year : {FirstYear, FirstYear + 1}]

\* The position of a season among all seasons.
SeasonRank(k) == 4 * (k.year - EpochYear) + indexOf(k.season)

NoItem == [present |-> FALSE, anime |-> <<>>, timestamp |-> 0, isFinished |-> FALSE]

EmptyStore == [k \in StoreKeys |-> NoItem]

\* getAllEntries(): the keys that hold an item.
getAllEntries(store) == {k \in StoreKeys : store[k].present}

removeItems(store, keys) ==
    [k \in StoreKeys |-> IF k \in keys THEN NoItem ELSE store[k]]

\* The comparator of clearOldest is negative for (a, b): unfinished seasons
\* first, then the older timestamp.
SortsBefore(store, finished, a, b) ==
    LET aFinished == a \in finished
        bFinished == b \in finished
    IN  IF aFinished # bFinished THEN ~aFinished
        ELSE store[a].timestamp < store[b].timestamp

\* The first count entries of the sorted list, as the sets they may form.
RECURSIVE FirstSorted(_, _, _)
FirstSorted(store, finished, count) ==
    LET entries == getAllEntries(store)
        first == {a \in entries :
                    \A b \in entries : ~SortsBefore(store, finished, b, a)}
    IN  IF count = 0 \/ entries = {} THEN {{}}
        ELSE UNION {{{a} \cup removed :
                        removed \in FirstSorted(removeItems(store, {a}), finished,
                                                count - 1)} :
                    a \in first}

\* clearOldest(count): the sets of keys it may remove, the first count
\* entries of the sorted list.  Entries that compare equal keep the order
\* of localStorage.key(i), which the browser defines.
clearOldest(store, count, t) ==
    FirstSorted(store, {k \in StoreKeys : isFinishedSeason(k.season, k.year, t)},
                count)

\* cleanup(): the items older than maxAge go, then the excess over
\* MAX_SEASONS.
cleanup(store, t) ==
    LET old == {k \in getAllEntries(store) : t - store[k].timestamp > maxAge}
        kept == removeItems(store, old)
        valid == getAllEntries(kept)
    IN  IF Cardinality(valid) > MAX_SEASONS
        THEN {removeItems(kept, removed) :
                removed \in clearOldest(kept, Cardinality(valid) - MAX_SEASONS, t)}
        ELSE {kept}

\* save(season, year, animeList), the write succeeds: the stores it may
\* leave behind.
save(store, k, animeList, t) ==
    cleanup([store EXCEPT ![k] =
                [present |-> TRUE, anime |-> animeList, timestamp |-> t,
                 isFinished |-> isFinishedSeason(k.season, k.year, t)]], t)

\* save, setItem throws QuotaExceededError: nothing is written and the
\* catch calls clearOldest(3).
saveQuotaExceeded(store, t) ==
    {removeItems(store, removed) : removed \in clearOldest(store, 3, t)}

\* get(season, year, ignoreExpiry) at time t: null, or data.anime.
get(store, k, ignoreExpiry, t) ==
    IF ~store[k].present THEN [null |-> TRUE, anime |-> <<>>]
    ELSE LET age == t - store[k].timestamp
             expiry == getCacheExpiry(k.season, k.year, t)
         IN  IF isFinishedSeason(k.season, k.year, t) \/ ignoreExpiry
             THEN [null |-> FALSE, anime |-> store[k].anime]
             ELSE IF age > expiry THEN [null |-> TRUE, anime |-> <<>>]
             ELSE [null |-> FALSE, anime |-> store[k].anime]

\* mergeUpdates(season, year, freshAnime) over the keys: what it returns,
\* and the stores it may leave behind.
mergeUpdatesResult(store, k, freshAnime) ==
    IF ~store[k].present
    THEN [counts |-> [NoCounts EXCEPT !.added = Len(freshAnime)],
          anime |-> freshAnime, merged |-> FALSE]
    ELSE LET m == MergeLoop(store[k].anime, freshAnime, 1, NoCounts)
         IN  [counts |-> m.counts, anime |-> m.anime, merged |-> TRUE]

mergeUpdatesItem(store, k, freshAnime, t) ==
    IF ~store[k].present THEN save(store, k, freshAnime, t)
    ELSE {[store EXCEPT ![k] =
            [@ EXCEPT !.anime = mergeUpdatesResult(store, k, freshAnime).anime,
                      !.timestamp = t]]}

\* updateAnime(season, year, updatedAnime): the object of that id is
\* replaced ({ ...old, ...updatedAnime } with every field supplied).
updateAnime(store, k, updatedAnime) ==
    IF ~store[k].present \/ PosOf(store[k].anime, updatedAnime.id) = 0 THEN store
    ELSE [store EXCEPT ![k] =
            [@ EXCEPT !.anime[PosOf(store[k].anime, updatedAnime.id)] = updatedAnime]]

\* The title of a season in Firebase (one a season), before and after its
\* dub check.
CatalogAnime(k) ==
    [id |-> SeasonRank(k), status |-> "RELEASING", title |-> "A",
     hasDub |-> Undefined, dubPlatforms |-> NoPlatforms,
     dubConfidence |-> -1, dubCheckedAt |-> -1]

DubChecked(a, t) ==
    [a EXCEPT !.hasDub = "true",
              !.dubPlatforms = [defined |-> TRUE, list |-> <<"Crunchyroll">>],
              !.dubConfidence = 80,
              !.dubCheckedAt = t]

\* The day the page is used on: 15 November of the year after FirstYear.
PageTime == newDate(FirstYear + 1, 10, 15)

NoTask == [kind |-> "none", pc |-> "idle", year |-> 0, needsCheck |-> <<>>,
           updated |-> FALSE]

PageTasks == {1, 2}

IdlePage ==
    [t |-> PageTime, currentSeason |-> "FALL", currentYear |-> FirstYear + 1,
     animeCache |-> <<>>, task |-> [i \in PageTasks |-> NoTask],
     last |-> "none", calls |-> 0]

InitStorage == ls = EmptyStore /\ pg = IdlePage

\* The variables the page over all seasons leaves alone.
offPageVars ==
    <<syncVars, now, clientVars, returned, srvVars, batch, netVars, usr, bsync, lc, mrg>>

\* The localCache calls made on one store, and the minutes between them.
StoreCalls == {0, 1}

\* The ages of the items the store holds at first: minutes, or a month
\* and more.
StoreAges == {0, maxAge + 1440}

\* The numbers of items the store holds at first.
StoreSizes == {0, 1, MAX_SEASONS - 1, MAX_SEASONS}

\* A store as earlier visits left it: at most MAX_SEASONS items, written a
\* minute apart in the order of their seasons.
InitStore ==
    \E held \in SUBSET StoreKeys, age \in StoreAges :
        /\ Cardinality(held) \in StoreSizes
        /\ ls = [k \in StoreKeys |->
                    IF k \in held
                    THEN [present |-> TRUE, anime |-> <<CatalogAnime(k)>>,
                          timestamp |-> PageTime - age - (20 - SeasonRank(k)),
                          isFinished |-> isFinishedSeason(k.season, k.year,
                                                          PageTime - age)]
                    ELSE NoItem]
        /\ pg = IdlePage

\* localCache.save is called and returns, a minute after the call before.
StoreSave(k, animeList) ==
    /\ pg.calls \in StoreCalls
    /\ \E store \in save(ls, k, animeList, pg.t + 1) : ls' = store
    /\ pg' = [pg EXCEPT !.t = @ + 1, !.calls = @ + 1,
                        !.last = "save"]
    /\ UNCHANGED offPageVars

StoreSaveQuotaExceeded(k, animeList) ==
    /\ pg.calls \in StoreCalls
    /\ \E store \in saveQuotaExceeded(ls, pg.t + 1) : ls' = store
    /\ pg' = [pg EXCEPT !.t = @ + 1, !.calls = @ + 1,
                        !.last = "save"]
    /\ UNCHANGED offPageVars

StoreMergeUpdates(k, freshAnime) ==
    /\ pg.calls \in StoreCalls
    /\ \E store \in mergeUpdatesItem(ls, k, freshAnime, pg.t + 1) : ls' = store
    /\ pg' = [pg EXCEPT !.t = @ + 1, !.calls = @ + 1,
                        !.last = "mergeUpdates"]
    /\ UNCHANGED offPageVars

StoreUpdateAnime(k, updatedAnime) ==
    /\ pg.calls \in StoreCalls
    /\ ls' = updateAnime(ls, k, updatedAnime)
    /\ pg' = [pg EXCEPT !.t = @ + 1, !.calls = @ + 1,
                        !.last = "updateAnime"]
    /\ UNCHANGED offPageVars

StoreNext ==
    \/ \E k \in StoreKeys : StoreSave(k, <<CatalogAnime(k)>>)
    \/ \E k \in StoreKeys : StoreSaveQuotaExceeded(k, <<CatalogAnime(k)>>)
    \/ \E k \in StoreKeys :
          StoreMergeUpdates(k, <<[CatalogAnime(k) EXCEPT !.status = "FINISHED"]>>)
    \/ \E k \in StoreKeys : StoreUpdateAnime(k, DubChecked(CatalogAnime(k), pg.t))

\* ------------------------------------------------------------------------
\* The page: season navigation, loads and background work
\* ------------------------------------------------------------------------
\* The seasons the user moves between: the one airing at PageTime and the
\* one after.
PageKeys ==
    {[season |-> "FALL", year |-> FirstYear + 1],
     [season |-> "WINTER", year |-> FirstYear + 2]}

\* The season of a title.
KeyOfId(id) == CHOOSE k \in StoreKeys : SeasonRank(k) = id

\* refs.anime.orderByChild('year').equalTo(year): the titles of that year.
RECURSIVE QueryYear(_, _)
QueryYear(year, i) ==
    IF i > 4 THEN <<>>
    ELSE LET k == [season |-> seasons[i], year |-> year]
         IN  (IF k \in StoreKeys THEN <<CatalogAnime(k)>> ELSE <<>>)
             \o QueryYear(year, i + 1)

\* snapshot.forEach: the titles whose season is currentSeason.
FilterSeason(list, season) ==
    SelectSeq(list, LAMBDA a : KeyOfId(a.id).season = season)

CurrentKey == [season |-> pg.currentSeason, year |-> pg.currentYear]

FreeTasks == {i \in PageTasks : pg.task[i].kind = "none"}

\* setTimeout(() => checkDubsInBackground(), 2000)
DubTimer == [NoTask EXCEPT !.kind = "dubs", !.pc = "timer"]

\* loadAnimeWithSync up to its first await, with the globals season and
\* year, as task i: a hit is rendered and refreshFromFirebaseInBackground
\* starts (it skips or sends its query); a miss sends the query for the
\* season's data.
loadAnimeWithSyncStarts(i, season, year) ==
    LET k == [season |-> season, year |-> year]
        finished == isFinishedSeason(season, year, pg.t)
        cachedAnime == get(ls, k, finished, pg.t)
        skips == /\ ls[k].present
                 /\ finished
                 /\ pg.t - ls[k].timestamp < EXPIRY_RECENT
    IN  IF ~cachedAnime.null /\ Len(cachedAnime.anime) > 0
        THEN [pg EXCEPT !.currentSeason = season, !.currentYear = year,
                        !.animeCache = cachedAnime.anime,
                        !.task[i] = IF skips THEN NoTask
                                    ELSE [NoTask EXCEPT !.kind = "refresh",
                                                        !.pc = "query",
                                                        !.year = year]]
        ELSE [pg EXCEPT !.currentSeason = season, !.currentYear = year,
                        !.task[i] = [NoTask EXCEPT !.kind = "load",
                                                   !.pc = "probe",
                                                   !.year = year]]

\* The click handler of prevSeason.
prevSeason(i) ==
    /\ i \in FreeTasks
    /\ LET idx == indexOf(pg.currentSeason)
           season == IF idx = 0 THEN seasons[4] ELSE seasons[idx]
           year == IF idx = 0 THEN pg.currentYear - 1 ELSE pg.currentYear
       IN  /\ [season |-> season, year |-> year] \in PageKeys
           /\ pg' = loadAnimeWithSyncStarts(i, season, year)
    /\ UNCHANGED ls
    /\ UNCHANGED offPageVars

\* The click handler of nextSeason.
nextSeason(i) ==
    /\ i \in FreeTasks
    /\ LET idx == indexOf(pg.currentSeason)
           season == IF idx = 3 THEN seasons[1] ELSE seasons[idx + 2]
           year == IF idx = 3 THEN pg.currentYear + 1 ELSE pg.currentYear
       IN  /\ [season |-> season, year |-> year] \in PageKeys
           /\ pg' = loadAnimeWithSyncStarts(i, season, year)
    /\ UNCHANGED ls
    /\ UNCHANGED offPageVars

\* loadAnime up to its await: a hit of localCache.get is rendered and the
\* dub check is scheduled; a miss sends the query of currentYear.
loadAnimeStarts(i) ==
    LET cachedAnime == get(ls, CurrentKey, FALSE, pg.t)
    IN  IF ~cachedAnime.null /\ Len(cachedAnime.anime) > 0
        THEN [pg EXCEPT !.animeCache = cachedAnime.anime, !.task[i] = DubTimer]
        ELSE [pg EXCEPT !.task[i] = [NoTask EXCEPT !.kind = "load",
                                                   !.pc = "query",
                                                   !.year = pg.currentYear]]

\* loadAnimeWithSync, the answer of its limitToFirst(1) query: with data
\* for the season loadAnime starts, without it animeSync.syncSeason.
seasonDataAnswers(i, hasSeasonData) ==
    /\ pg.task[i].kind = "load"
    /\ pg.task[i].pc = "probe"
    /\ pg' = IF hasSeasonData THEN loadAnimeStarts(i)
             ELSE [pg EXCEPT !.task[i].pc = "sync"]
    /\ UNCHANGED ls
    /\ UNCHANGED offPageVars

\* The sync awaited by loadAnimeWithSync or initializeApp returns:
\* loadAnime starts.
syncReturns(i) ==
    /\ pg.task[i].kind = "load"
    /\ pg.task[i].pc = "sync"
    /\ pg' = loadAnimeStarts(i)
    /\ UNCHANGED ls
    /\ UNCHANGED offPageVars

\* loadAnime, the answer of its query: animeCache is the year's titles of
\* currentSeason, saved under currentSeason and currentYear.
loadAnimeAnswers(i) ==
    /\ pg.task[i].kind = "load"
    /\ pg.task[i].pc = "query"
    /\ LET list == FilterSeason(QueryYear(pg.task[i].year, 1), pg.currentSeason)
       IN  /\ \E store \in save(ls, CurrentKey, list, pg.t) : ls' = store
           /\ pg' = [pg EXCEPT !.animeCache = list, !.task[i] = DubTimer]
    /\ UNCHANGED offPageVars

\* refreshFromFirebaseInBackground, the answer of its query: the year's
\* titles of currentSeason are merged into the item of currentSeason and
\* currentYear.
refreshAnswers(i) ==
    /\ pg.task[i].kind = "refresh"
    /\ pg.task[i].pc = "query"
    /\ LET freshAnime == FilterSeason(QueryYear(pg.task[i].year, 1), pg.currentSeason)
           mergeResult == mergeUpdatesResult(ls, CurrentKey, freshAnime)
       IN  /\ \E store \in mergeUpdatesItem(ls, CurrentKey, freshAnime, pg.t) :
                ls' = store
           /\ pg' = [pg EXCEPT
                        !.animeCache = IF mergeResult.counts.added > 0
                                          \/ mergeResult.counts.updated > 0
                                       THEN mergeResult.anime ELSE @,
                        !.task[i] = NoTask]
    /\ UNCHANGED offPageVars

\* A query of loadAnime or of the background refresh rejects.
pageQueryFails(i) ==
    /\ pg.task[i].kind \in {"load", "refresh"}
    /\ pg.task[i].pc \in {"probe", "query"}
    /\ pg' = [pg EXCEPT !.task[i] = NoTask]
    /\ UNCHANGED ls
    /\ UNCHANGED offPageVars

\* checkDubsInBackground up to its first await: the titles of animeCache
\* not checked within a day.
checkDubsInBackground(i) ==
    /\ pg.task[i].kind = "dubs"
    /\ pg.task[i].pc = "timer"
    /\ LET oneDayAgo == pg.t - 1440
           needsCheck == SelectSeq(pg.animeCache,
                            LAMBDA a : a.dubCheckedAt = -1 \/ a.dubCheckedAt < oneDayAgo)
       IN  pg' = [pg EXCEPT !.task[i] =
                    IF needsCheck = <<>> THEN NoTask
                    ELSE [@ EXCEPT !.pc = "check", !.needsCheck = needsCheck]]
    /\ UNCHANGED ls
    /\ UNCHANGED offPageVars

\* dubChecker.checkDub of the next title resolves (ok) or rejects: the
\* title is looked up in animeCache as it is now and written through
\* updateAnime under currentSeason and currentYear.
dubCheckSettles(i, ok) ==
    /\ pg.task[i].kind = "dubs"
    /\ pg.task[i].pc = "check"
    /\ LET a == Head(pg.task[i].needsCheck)
           idx == PosOf(pg.animeCache, a.id)
           rest == Tail(pg.task[i].needsCheck)
           found == ok /\ idx # 0
           checked == DubChecked(pg.animeCache[idx], pg.t)
       IN  /\ pg' = [pg EXCEPT
                        !.animeCache = IF found THEN [@ EXCEPT ![idx] = checked] ELSE @,
                        !.task[i] = [@ EXCEPT !.needsCheck = rest,
                                              !.updated = @ \/ found,
                                              !.pc = IF rest = <<>> THEN "delay"
                                                     ELSE "check"]]
           /\ ls' = IF found THEN updateAnime(ls, CurrentKey, checked) ELSE ls
    /\ UNCHANGED offPageVars

\* checkDubsInBackground after the delay that ends its batch: with a title
\* updated, animeCache is saved under currentSeason and currentYear.
checkDubsCompletes(i) ==
    /\ pg.task[i].kind = "dubs"
    /\ pg.task[i].pc = "delay"
    /\ IF pg.task[i].updated
       THEN \E store \in save(ls, CurrentKey, pg.animeCache, pg.t) : ls' = store
       ELSE UNCHANGED ls
    /\ pg' = [pg EXCEPT !.task[i] = NoTask]
    /\ UNCHANGED offPageVars

\* The page opened on the airing season with nothing cached:
\* initializeApp awaits its sync check before loadAnime.
InitOpenPage ==
    /\ ls = EmptyStore
    /\ pg = [IdlePage EXCEPT !.task[1] = [NoTask EXCEPT !.kind = "load", !.pc = "sync"]]

PageNext ==
    \E i \in PageTasks :
        \/ prevSeason(i)
        \/ nextSeason(i)
        \/ \E hasSeasonData \in BOOLEAN : seasonDataAnswers(i, hasSeasonData)
        \/ syncReturns(i)
        \/ loadAnimeAnswers(i)
        \/ refreshAnswers(i)
        \/ pageQueryFails(i)
        \/ checkDubsInBackground(i)
        \/ \E ok \in BOOLEAN : dubCheckSettles(i, ok)
        \/ checkDubsCompletes(i)

\* The cached title that the fresh list lacks, and the fresh title that
\* the cache lacks.
CachedOnly ==
    [id |-> 2, status |-> "FINISHED", title |-> "A", hasDub |-> "true",
     dubPlatforms |-> [defined |-> TRUE, list |-> <<"Crunchyroll">>],
     dubConfidence |-> 80, dubCheckedAt |-> 5]

FreshOnly ==
    [id |-> 3, status |-> "RELEASING", title |-> "B", hasDub |-> Undefined,
     dubPlatforms |-> NoPlatforms, dubConfidence |-> -1, dubCheckedAt |-> -1]

NoMerge ==
    [stored |-> [present |-> FALSE, anime |-> <<>>], fresh |-> <<>>,
     result |-> NoCounts, pc |-> "idle"]

InitPage == mrg = NoMerge /\ InitStorage

\* A mergeUpdates call about to run: an item of two titles, or no item, and
\* a fresh list of two titles, one of them cached.
InitMerge ==
    \E existing \in Entities(1), fresh \in Entities(1), present \in BOOLEAN :
        mrg = [stored |-> IF present
                          THEN [present |-> TRUE, anime |-> <<existing, CachedOnly>>]
                          ELSE [present |-> FALSE, anime |-> <<>>],
               fresh |-> <<fresh, FreshOnly>>, result |-> NoCounts, pc |-> "call"]

MergeNext ==
    \/ mergeUpdatesCall
       /\ UNCHANGED <<syncVars, now, clientVars, returned, srvVars, batch, netVars, usr, bsync, lc, ls, pg>>
    \/ mergeUpdatesFallback
       /\ UNCHANGED <<syncVars, now, clientVars, returned, srvVars, batch, netVars, usr, bsync, lc, ls, pg>>

InitProgress ==
    usr = [progress |-> NoProgress, sessions |-> <<>>, started |-> 0,
           call |-> [c \in ProgressCalls |-> IdleProgress]]

InitBrowserSync ==
    bsync = [pc |-> "idle", type |-> "", phase |-> "current", page |-> 1,
             allAnime |-> <<>>, idx |-> 1, added |-> 0, updated |-> 0,
             total |-> 0, truncated |-> FALSE, saved |-> {},
             lastSync |-> NoSync, outcome |-> "none", runs |-> 0]

\* The WINTER page opened on 1 January of FirstYear.
InitWinterPage ==
    lc = [t |-> newDate(FirstYear, 0, 1), season |-> "WINTER", year |-> FirstYear,
          stored |-> NoSnapshot, got |-> "none", pc |-> "idle", elapses |-> 0]

InitApp ==
    /\ InitProgress
    /\ InitBrowserSync
    /\ InitPage
    /\ InitWinterPage

\* The steps of the browser's catalog sync.
BrowserSyncNext ==
    \/ \E forceType \in {"", "full", "quick"}, hoursSinceSync \in {0, 1} :
          runSync(forceType, hoursSinceSync)
          /\ UNCHANGED <<syncVars, now, clientVars, returned, srvVars, batch, netVars, usr, lc, pageVars>>
    \/ fetchSeasonAnime
       /\ UNCHANGED <<syncVars, now, clientVars, returned, srvVars, batch, netVars, usr, lc, pageVars>>
    \/ fetchSeasonAnimeBreaks
       /\ UNCHANGED <<syncVars, now, clientVars, returned, srvVars, batch, netVars, usr, lc, pageVars>>
    \/ saveSeasonAnime
       /\ UNCHANGED <<syncVars, now, clientVars, returned, srvVars, batch, netVars, usr, lc, pageVars>>
    \/ saveSeasonAnimeFails
       /\ UNCHANGED <<syncVars, now, clientVars, returned, srvVars, batch, netVars, usr, lc, pageVars>>
    \/ markSynced
       /\ UNCHANGED <<syncVars, now, clientVars, returned, srvVars, batch, netVars, usr, lc, pageVars>>

\* The steps of the progress updates of one user for one anime.
ProgressNext ==
    \/ \E c \in ProgressCalls, lastEpisode \in 0..(MaxEp + 1) :
          updateProgress(c, lastEpisode)
          /\ UNCHANGED <<syncVars, now, clientVars, returned, srvVars, batch, netVars, bsync, lc, pageVars>>
    \/ \E c \in ProgressCalls :
        \/ ProgressUpsert(c)
           /\ UNCHANGED <<syncVars, now, clientVars, returned, srvVars, batch, netVars, bsync, lc, pageVars>>
        \/ logSession(c)
           /\ UNCHANGED <<syncVars, now, clientVars, returned, srvVars, batch, netVars, bsync, lc, pageVars>>

\* The steps of the browser's dub resolution.  T: the calls that may be in
\* flight together; lists: the platform lists the sources may report;
\* saves: whether the Firebase update of saveDubInfo may succeed, fail.
DubNext(T, lists, saves) ==
    \E t \in T :
        \/ \E id \in DubIds : BrowserStep /\ checkDub(t, id)
        \/ \E id \in DubIds, data \in Overrides(lists) :
              BrowserStep /\ setDubOverride(t, id, data)
        \/ BrowserStep /\ checkFirebaseOverride(t)
        \/ \E a \in AniListResults(lists), j \in JikanResults,
              k \in KnownResults(lists) :
                BrowserStep /\ CheckDubSettle(t, a, j, k)
        \/ \E ok \in saves : BrowserStep /\ saveDubInfo(t, ok)
        \/ BrowserStep /\ OverrideRecheck(t)

\* The steps of the server's dub resolution.  T: the calls that may be in
\* flight together; platforms, statuses: what the admin may record.
SrvNext(T, platforms, statuses) ==
    \/ \E t \in T :
        \/ \E id \in DubIds : ServerStep /\ checkDubStatus(t, id)
        \/ \E res \in UNION {AdapterResults(SourceNames[i]) :
                                i \in DOMAIN SourceNames} :
              ServerStep /\ SourceAnswers(t, res)
        \/ ServerStep /\ SourceThrows(t)
        \/ ServerStep /\ saveDubToDatabase(t)
    \/ \E id \in DubIds, platform \in platforms, status \in statuses :
          ServerStep /\ UpdateDubSelect(id, platform, status)
    \/ ServerStep /\ UpdateDubWrite

\* The steps of one batchCheckDubs call.
BatchNext ==
    \/ \E list \in BatchLists, c \in Concurrencies :
          BatchStep /\ batchCheckDubs(list, c)
    \/ \E w \in DubTasks :
        \/ \E res \in BatchAnswers :
              BatchStep /\ SourceAnswers(w, res) /\ WorkerAwaits(w)
        \/ BatchStep /\ SourceThrows(w) /\ WorkerAwaits(w)
        \/ BatchStep /\ saveDubToDatabase(w) /\ WorkerAwaits(w)
        \/ BatchStep /\ WorkerResumes(w)
    \/ BatchStep /\ BatchReturns

\* The server and the dub checkers before anything has run.
InitServer ==
    /\ InitDub
    /\ InitNet
    /\ anime = <<>>
    /\ sync_logs = <<>>
    /\ run = [r \in Runs |-> IdleRun]
    /\ maxSupplied = [e \in CatalogIds |-> 0]
    /\ lastUpsert = NoUpsert
    /\ hist = [r \in Runs |-> NoHist]

Init ==
    /\ InitServer
    /\ InitApp

Layout(r, cur, nxt) == IF run[r].phase = "current" THEN cur ELSE nxt

InFlight(r) == run[r].pc \notin {"idle", "done", "failed"}

\* The steps of the sync jobs.  R: the job invocations; overlap: whether a
\* job may start while another is in flight; cur, nxt: the upstream's pages
\* of the current and of the next season; listed, detailed: the items the
\* upstream may return in a season listing and to a details query;
\* airings: what the upstream may list as airing.
SyncNext(R, overlap, cur, nxt, listed, detailed, airings) ==
    \E r \in R :
        \/ /\ overlap \/ \A q \in R : ~InFlight(q)
           /\ \E job \in {"SEASON_SYNC", "DAILY_UPDATE"} : StartRun(r, job)
           /\ UNCHANGED dubVars
        \/ FetchPage(r, Layout(r, cur, nxt)) /\ UNCHANGED dubVars
        \/ FetchFails(r) /\ UNCHANGED dubVars
        \/ SaveSelect(r) /\ UNCHANGED dubVars
        \/ \E raw \in listed : SaveWrite(r, raw) /\ UNCHANGED dubVars
        \/ SaveFails(r) /\ UNCHANGED dubVars
        \/ \E airing \in airings : FetchAiring(r, airing) /\ UNCHANGED dubVars
        \/ SelectAiring(r) /\ UNCHANGED dubVars
        \/ DailySkip(r) /\ UNCHANGED dubVars
        \/ \E raw \in detailed : DailyItem(r, raw) /\ UNCHANGED dubVars
        \/ SelectFinished(r) /\ UNCHANGED dubVars
        \/ \E raw \in detailed : FinishItem(r, raw) /\ UNCHANGED dubVars
        \/ DailyFails(r) /\ UNCHANGED dubVars
        \/ CompleteRun(r) /\ UNCHANGED dubVars
        \/ CatchRun(r) /\ UNCHANGED dubVars

\* Concurrent runs over one catalog entity.
SeasonPages == << <<1>> >>

UpcomingPages == << <<>> >>

Next ==
    SyncNext(Runs, TRUE, SeasonPages, UpcomingPages,
             UNION {RawSeasonItems(e) : e \in Ids},
             UNION {RawDetailItems(e) : e \in Ids}, SUBSET Ids)

Spec == Init /\ [][Next]_vars

\* One run after another over a season of three pages of 2, 2 and 1 items.
ScenarioPages == << <<1, 2>>, <<3, 4>>, <<5>> >>

ScenarioIds == {1, 2, 3, 4, 5}

ScenarioListed(id) ==
    {[id |-> id, status |-> "RELEASING", episodes |-> MaxEp, next |-> MaxEp,
      sched |-> 0]}

ScenarioDetailed(id) ==
    {[id |-> id, status |-> st, episodes |-> MaxEp, next |-> 0, sched |-> MaxEp] :
        st \in {"RELEASING", "FINISHED"}}

NextSeq ==
    SyncNext(Runs, FALSE, ScenarioPages, UpcomingPages,
             UNION {ScenarioListed(e) : e \in ScenarioIds},
             UNION {ScenarioDetailed(e) : e \in ScenarioIds},
             {ScenarioIds, {1, 2}})

SpecSeq == Init /\ [][NextSeq]_vars

\* The sync jobs where every step that can be taken is taken in the end:
\* requests are answered, statements of the store return.
SpecFair == Spec /\ WF_vars(Next)

\* The browser's dub resolution, one call at a time, over every combination
\* of source results.
NextDub == DubNext({1}, PlatformLists, {TRUE})

SpecDub == Init /\ [][NextDub]_vars

\* The confidence of the browser's two resolvers, over every combination of
\* contributions.
NextConf ==
    \/ DubNext({1}, {<<>>}, BOOLEAN)
    \/ \E translated \in BOOLEAN, providers \in 0..MaxProviders,
          spoken \in BOOLEAN, trailers \in BOOLEAN :
            BrowserStep /\ TmdbCheckDub(translated, providers, spoken, trailers)

SpecConf == Init /\ [][NextConf]_vars

\* Both memos under a running clock.
NextCache ==
    \/ DubNext({1}, {<<"Prime Video">>}, {TRUE})
    \/ SrvNext({1}, {"Crunchyroll"}, {"ONGOING", "NONE"})
    \/ Tick(6)

SpecCache == Init /\ [][NextCache]_vars

\* The browser's resolver alone, two calls in flight together.
NextOverride == DubNext(DubTasks, {<<"Prime Video">>}, {TRUE})

SpecOverride == Init /\ [][NextOverride]_vars

\* One graphqlRequest call against an upstream that answers as it likes.
NextFetch == FetchNext

SpecFetch == Init /\ [][NextFetch]_vars

\* Concurrent checkJikanDub calls of one DubService.
NextJikan == JikanNext

SpecJikan == Init /\ [][NextJikan]_vars

\* Progress updates of one user for one anime, two requests at a time.
NextProgress == ProgressNext

SpecProgress == Init /\ [][NextProgress]_vars

\* +1 requests of one user for one anime, two at a time.
NextIncrement == IncrementNext

SpecIncrement == Init /\ [][NextIncrement]_vars

\* The browser's catalog sync, one runSync call at a time.
NextBrowserSync == BrowserSyncNext

SpecBrowserSync == Init /\ [][NextBrowserSync]_vars

\* The season page opened on any of the days, on any season.
InitSeasonPage ==
    /\ InitServer
    /\ InitProgress
    /\ InitBrowserSync
    /\ InitLocalCache
    /\ InitPage

NextLocalCache == LocalCacheNext

SpecLocalCache == InitSeasonPage /\ [][NextLocalCache]_vars

\* localCache calls on the stores earlier visits may have left.
InitStoreCalls ==
    /\ InitServer
    /\ InitProgress
    /\ InitBrowserSync
    /\ InitWinterPage
    /\ mrg = NoMerge
    /\ InitStore

NextStore == StoreNext

SpecStore == InitStoreCalls /\ [][NextStore]_vars

\* The page used across two seasons, two pieces of work in flight.
InitPageOpened ==
    /\ InitServer
    /\ InitProgress
    /\ InitBrowserSync
    /\ InitWinterPage
    /\ mrg = NoMerge
    /\ InitOpenPage

NextPage == PageNext

SpecPage == InitPageOpened /\ [][NextPage]_vars

\* One mergeUpdates call on every pair of a cached and a fresh object.
InitMergeCall ==
    /\ InitServer
    /\ InitProgress
    /\ InitBrowserSync
    /\ InitWinterPage
    /\ InitStorage
    /\ InitMerge

NextMerge == MergeNext

SpecMerge == InitMergeCall /\ [][NextMerge]_vars

\* One batchCheckDubs call with its workers.
NextBatch == BatchNext

SpecBatch == Init /\ [][NextBatch]_vars

\* The same, where the event loop runs every continuation that is ready
\* and every source call is answered.
SpecBatchFair == SpecBatch /\ WF_vars(NextBatch)


\* ------------------------------------------------------------------------
\* Properties of the sync jobs
\* ------------------------------------------------------------------------
RowCount(e) == Cardinality(RowsOf(e))

LogOf(r) == sync_logs[run[r].logId]

\* C1: a saveAnime call whose item is identical to that of the saveAnime
\* call applied just before it leaves exactly one row for the item's
\* external id and is counted neither as added nor as updated.
C1_SecondUpsertReportsNoDelta ==
    [][\A r \in Runs :
        (/\ run[r].pc = "write"
         /\ run'[r] # run[r]
         /\ lastUpsert.id = run[r].list[run[r].idx]
         /\ lastUpsert' = lastUpsert)
        => /\ Cardinality({i \in DOMAIN anime' :
                              anime'[i].anilist_id = lastUpsert.id}) = 1
           /\ run'[r].added = run[r].added
           /\ run'[r].updated = run[r].updated]_vars

\* C2: the stored episodes_aired of every entity is the largest value any
\* applied write has supplied for it.
C2_EpisodesAiredIsMaxSupplied ==
    \A i \in DOMAIN anime :
        anime[i].episodes_aired = maxSupplied[anime[i].anilist_id]

\* C3: a row whose status is FINISHED keeps that status in every step.
C3_FinishedIsTerminal ==
    [][\A i \in DOMAIN anime :
        anime[i].status = "FINISHED" => anime'[i].status = "FINISHED"]_vars

\* C4: no external id ever has two rows, and an id whose INSERT or UPDATE
\* some run has issued has exactly one, however the runs interleave.
C4_OneRowPerExternalId ==
    \A e \in CatalogIds :
        /\ RowCount(e) <= 1
        /\ (\E r \in Runs : e \in hist[r].upserted) => RowCount(e) = 1

\* Both runs looked the id up before either had inserted it, both issued
\* their INSERT, and both runs have completed.
C4_Witness ==
    \E e \in CatalogIds :
        /\ \A r \in Runs : e \in hist[r].upserted /\ run[r].pc = "done"
        /\ \E r \in Runs : \E k \in DOMAIN LogOf(r).errors :
              LogOf(r).errors[k] = [id |-> e, msg |-> "SQLITE_CONSTRAINT"]
        /\ RowCount(e) = 1

\* ------------------------------------------------------------------------
\* Properties of the dub resolution
\* ------------------------------------------------------------------------
\* A source contributes when it has answered and reports a dub.
Contributed(x) == x.found /\ x.hasDub

\* The platforms of an override node ([] where it has no platforms key).
OverridePlatforms(o) == IF o.listed THEN o.platforms ELSE <<>>

\* C5: when a manual override exists for an entity, the resolved verdict
\* has confidence 100 and its hasDub and platforms are exactly those of
\* the override, whatever the catalog, community and known-list sources
\* report.
C5_OverrideDeterminesVerdict ==
    \A t \in DubTasks :
        (check[t].pc = "save" /\ check[t].override.found) =>
            /\ check[t].results.confidence = 100
            /\ check[t].results.hasDub = check[t].override.hasDub
            /\ check[t].results.platforms = OverridePlatforms(check[t].override)

C7_PlatformsHaveNoAliasDuplicates ==
    \A t \in DubTasks :
        check[t].pc = "save" =>
            LET p == check[t].results.platforms
            IN  \A i, j \in DOMAIN p :
                    i # j => PlatformKey(p[i]) # PlatformKey(p[j])

FreshInBrowser(id) ==
    dubCache[id] # NoVerdict /\ now - dubCache[id].lastChecked < cacheExpiry

FreshOnServer(id) ==
    srvCache[id] # NoEntry /\ now - srvCache[id].timestamp < cacheTTL

\* C9 as the code has it: a resolution that finds a verdict younger than
\* the TTL in the memo invokes no source adapter; the browser returns the
\* stored verdict itself, the server returns every field of the stored
\* verdict and adds source = "cache" to them.
C9_CacheHitReturnsStoredFields ==
    [][\A t \in DubTasks, id \in DubIds :
        /\ (FreshInBrowser(id) /\ checkDub(t, id)) =>
              /\ returned'.verdict = dubCache[id]
              /\ check' = check
        /\ (FreshOnServer(id) /\ checkDubStatus(t, id)) =>
              /\ returned'.verdict.hasDub = srvCache[id].data.hasDub
              /\ returned'.verdict.platforms = srvCache[id].data.platforms
              /\ returned'.verdict.checked = srvCache[id].data.checked
              /\ returned'.verdict.source = "cache"
              /\ srvCheck' = srvCheck]_vars

\* The server has answered from its memo with a dub and its platforms.
C9_Witness ==
    /\ returned.by = "DubService"
    /\ returned.hit
    /\ returned.verdict.hasDub
    /\ returned.verdict.platforms # <<>>
    /\ \E id \in DubIds : FreshOnServer(id)

\* C9: after a verdict has been stored in the cache, retrieving it for the
\* same key before the TTL expires returns a verdict identical in every
\* field to the one stored, and invokes no source adapter.
C9_CacheHitReturnsIdenticalVerdict ==
    [][LET SameFields(v, w) ==
               DOMAIN v = DOMAIN w /\ \A f \in DOMAIN v : v[f] = w[f]
       IN
       \A t \in DubTasks, id \in DubIds :
        /\ (FreshInBrowser(id) /\ checkDub(t, id)) =>
              /\ SameFields(returned'.verdict, dubCache[id])
              /\ check' = check
        /\ (FreshOnServer(id) /\ checkDubStatus(t, id)) =>
              /\ SameFields(returned'.verdict, srvCache[id].data)
              /\ srvCheck' = srvCheck]_vars

\* C10: an item failure is collected and never ends the run: a run that
\* ends in its catch block got there by a failed page request, and a run
\* whose requests all succeeded handles every item of its lists, records
\* one error per failed item, counts the others, and is logged SUCCESS.
C10_ItemFailuresAreIsolated ==
    \A r \in Runs :
        /\ run[r].pc \in {"catch", "failed"} => run[r].thrown = "page request failed"
        /\ run[r].pc = "done" =>
              /\ LogOf(r).status = "SUCCESS"
              /\ LogOf(r).errors = run[r].errors
              /\ LogOf(r).anime_updated = run[r].updated
              /\ hist[r].handled = hist[r].items
              /\ hist[r].wrote + Len(run[r].errors) <= hist[r].items
              /\ run[r].job = "SEASON_SYNC" =>
                    /\ LogOf(r).anime_added = run[r].added
                    /\ run[r].added + run[r].updated = hist[r].wrote
                    /\ hist[r].wrote + Len(run[r].errors) = hist[r].items
              /\ run[r].job = "DAILY_UPDATE" =>
                    /\ LogOf(r).anime_added = 0
                    /\ run[r].updated <= hist[r].wrote

\* Three pages of 2, 2 and 1 items, one item failed: 4 added, one error,
\* SUCCESS.
C10_Witness ==
    \E r \in Runs :
        /\ run[r].pc = "done"
        /\ run[r].job = "SEASON_SYNC"
        /\ hist[r].items = 5
        /\ LogOf(r).status = "SUCCESS"
        /\ LogOf(r).anime_added = 4
        /\ LogOf(r).anime_updated = 0
        /\ Len(LogOf(r).errors) = 1

\* C11: when a page fetch fails during a sync run, also the next-season
\* fetch after items of the current season were upserted, the run stops
\* (it writes nothing more) and its sync_logs row is completed with status
\* ERROR, the terminal error, and the added/updated counts accumulated
\* before the failure.
C11_FetchFailureIsLoggedWithCounts ==
    [][\A r \in Runs :
        /\ run[r].pc \in {"catch", "failed"} =>
              /\ run'[r].pc \in {"catch", "failed"}
              /\ hist'[r] = hist[r]
              /\ run'[r].added = run[r].added
              /\ run'[r].updated = run[r].updated
        /\ run'[r].pc = "failed" =>
              /\ LogOf(r)'.status = "ERROR"
              /\ LogOf(r)'.completed
              /\ LogOf(r)'.errors = <<"page request failed">>
              /\ LogOf(r)'.anime_updated = run'[r].updated
              /\ LogOf(r)'.anime_added = run'[r].added
              /\ run'[r].job = "SEASON_SYNC" =>
                    run'[r].added + run'[r].updated = hist'[r].wrote]_vars

\* The next-season fetch has failed after an item of the current season
\* was added, and the row carries that count.
C11_Witness ==
    \E r \in Runs :
        /\ run[r].pc = "failed"
        /\ run[r].job = "SEASON_SYNC"
        /\ run[r].phase = "next"
        /\ LogOf(r).status = "ERROR"
        /\ LogOf(r).anime_added = 1

\* C12: when the upstream answers the first attempt with 429 and retry-after
\* = r seconds (60 when the header is absent) and the retry succeeds, the
\* retry is not sent before r seconds have passed since the 429, it is the
\* only retry (two requests), and the call returns the data of the
\* successful answer.
C12_RetryWaitsAndReturnsResult ==
    LET first == gql.answers[1]
        r == CASE first.header = "" -> 60
               [] first.header = "1" -> 1
               [] first.header = "2" -> 2
    IN  (/\ Len(gql.answers) >= 1
         /\ first.status = 429
         /\ first.header \in {"", "1", "2"}) =>
            /\ Len(gql.sentAt) >= 2 => gql.sentAt[2] >= first.at + r * 1000
            /\ (Len(gql.answers) = 2 /\ gql.answers[2].status = 200) =>
                  /\ gql.pc = "returned"
                  /\ gql.outcome = [kind |-> "data", data |-> gql.answers[2].data]
                  /\ Len(gql.sentAt) = 2

C12_Witness ==
    /\ gql.pc = "returned"
    /\ Len(gql.answers) = 2
    /\ gql.answers[1].status = 429
    /\ gql.answers[1].header = ""
    /\ gql.sentAt[2] = gql.answers[1].at + 60000
    /\ gql.outcome.kind = "data"

\* C13: on a 429 the fetcher retries the same request exactly once: a call
\* sends at most two requests, and when the retry is answered 429 as well
\* the call ends with a failure surfaced to its caller.
C13_RetriesExactlyOnce ==
    /\ Len(gql.sentAt) <= 2
    /\ (/\ Len(gql.answers) = 2
        /\ gql.answers[1].status = 429
        /\ gql.answers[2].status = 429) =>
            /\ gql.pc = "thrown"
            /\ gql.outcome.kind = "error"

\* C14: whatever the interleaving of concurrent callers, two requests to
\* the community API are never sent less than its minimum interval (1000
\* ms) apart.
C14_RequestsKeepMinimumInterval ==
    \A i, j \in DOMAIN jikan.sentAt :
        i < j => jikan.sentAt[j] - jikan.sentAt[i] >= jikanRateLimit

\* C15: every row with status AIRING, a known total and episodes_aired >=
\* total_episodes is selected by the daily update as a finish candidate,
\* whether or not the airing listing held it, and the candidate's row is
\* FINISHED once the update has handled it (here: once its iteration of the
\* finish pass has ended without an error).
C15_FinishCandidatesBecomeFinished ==
    [][\A r \in Runs :
        /\ (run[r].pc = "possiblyFinished" /\ run'[r].pc # "possiblyFinished") =>
              \A i \in RowIds :
                  (/\ anime[i].status = "AIRING"
                   /\ anime[i].total_episodes # 0
                   /\ anime[i].episodes_aired >= anime[i].total_episodes) =>
                      \E k \in DOMAIN run'[r].list : run'[r].list[k] = i
        /\ (/\ run[r].pc = "pass2"
            /\ run'[r] # run[r]
            /\ run'[r].errors = run[r].errors) =>
              anime'[run[r].list[run[r].idx]].status = "FINISHED"]_vars

CountOf(ids, x) == Cardinality({i \in DOMAIN ids : ids[i] = x})

\* The entities of the result entries, in order.
ResultIds == [i \in DOMAIN batch.results |-> batch.results[i].anime]

\* The workers that hold an entity: taken off the queue, no result pushed.
Holding(x) ==
    {w \in DubTasks : /\ batch.worker[w].pc \in {"resolving", "resumed"}
                      /\ batch.worker[w].anime = x}

InProgress ==
    {w \in DubTasks : batch.worker[w].pc \in {"resolving", "resumed"}}

\* C18: during a batch with concurrency c at most c resolutions are in
\* progress at a time, and a worker takes the next entity off the queue
\* only when the checkDubStatus call of its previous entity has returned:
\* the call is over, and a verdict that came from a source is in the memo.
C18_AtMostCInProgress ==
    /\ [](/\ Cardinality(InProgress) <= batch.concurrency
          /\ Cardinality({w \in DubTasks : srvCheck[w].pc # "idle"})
                <= batch.concurrency)
    /\ [][\A w \in DubTasks :
            (/\ batch.pc = "running"
             /\ Len(batch'.queue) < Len(batch.queue)
             /\ batch'.worker[w] # batch.worker[w]) =>
                /\ batch.worker[w].pc = "resumed"
                /\ srvCheck[w].pc = "idle"
                /\ Len(batch'.results) = Len(batch.results) + 1
                /\ batch'.results[Len(batch'.results)].anime = batch.worker[w].anime
                /\ batch.worker[w].dub.source \notin {"none", "cache"} =>
                      srvCache[batch.worker[w].anime] # NoEntry]_vars

\* Two workers resolve at once while the first result is in: one of them
\* has taken its second entity.
C18_Witness ==
    /\ batch.pc = "running"
    /\ batch.concurrency = 2
    /\ Cardinality(InProgress) = 2
    /\ Len(batch.results) = 1
    /\ batch.queue = <<>>
    /\ Len(batch.input) = 3

\* The adapters a checkDub call has invoked: the array handed to
\* Promise.allSettled is built by calling all of them, each running up to
\* its first await, before any has settled.  A call without a MAL id puts
\* Promise.resolve(null) in the place of checkJikanDub.
InvokedAdapters(c) ==
    IF c.pc \in {"checks", "settle", "save"}
    THEN {"AniList", "Manual Override", "Known Database"}
         \cup (IF c.bare THEN {} ELSE {"MyAnimeList"})
    ELSE {}

\* The adapters of a checkDub call that have returned.
SettledAdapters(c) ==
    CASE c.pc = "settle" -> {"Manual Override"}
      [] c.pc = "save" -> InvokedAdapters(c)
      [] OTHER -> {}

\* The sources a checkDubStatus call has asked, and those that have
\* returned: the loop awaits each source before it asks the next.
AskedSources(c) ==
    IF c.pc \in {"source", "save"}
    THEN {SourceNames[i] : i \in 1..c.idx}
    ELSE {}

AnsweredSources(c) ==
    CASE c.pc = "source" -> {SourceNames[i] : i \in 1..(c.idx - 1)}
      [] c.pc = "save" -> AskedSources(c)
      [] OTHER -> {}

\* The priority order of the adapters: override, persisted store, catalog,
\* community, scrape, pattern.
PriorityOf(adapter) ==
    CASE adapter = "Manual Override" -> 1
      [] adapter = "database" -> 2
      [] adapter \in {"AniList", "anilist"} -> 3
      [] adapter \in {"MyAnimeList", "jikan"} -> 4
      [] adapter = "livechart" -> 5
      [] adapter = "Known Database" -> 6

\* C19: within one resolution the adapters are invoked strictly one after
\* another in priority order: an adapter has been started only if every
\* started adapter of higher priority has returned.
C19_AdaptersRunInPriorityOrder ==
    \A t \in DubTasks :
        /\ \A x, y \in AskedSources(srvCheck[t]) :
              PriorityOf(x) < PriorityOf(y) => x \in AnsweredSources(srvCheck[t])
        /\ \A x, y \in InvokedAdapters(check[t]) :
              PriorityOf(x) < PriorityOf(y) => x \in SettledAdapters(check[t])

\* C20: when the override node holds a record for the entity, the
\* resolution invokes no adapter but the override's.
C20_OverrideShortCircuits ==
    \A t \in DubTasks :
        (/\ check[t].pc \in {"settle", "save"}
         /\ check[t].override.found) =>
            InvokedAdapters(check[t]) \subseteq {"Manual Override"}

\* C21: with no override, a source that has checked does not end the
\* cascade: as long as sources remain, the resolution goes on to the next
\* one after every answer, so that every applicable result can count.
C21_ApplicableResultDoesNotEndCascade ==
    [][\A t \in DubTasks :
        (/\ srvCheck[t].pc = "source"
         /\ srvCheck[t].idx < Len(SourceNames)
         /\ srvCheck'[t] # srvCheck[t]) =>
            /\ srvCheck'[t].pc = "source"
            /\ srvCheck'[t].idx = srvCheck[t].idx + 1]_vars

\* C22: a dub reported by the scrape source alone does not count: when no
\* other source of the resolution has reported a dub (the scrape source is
\* asked only after every other source has not checked), the verdict is
\* what it would be without the scrape source's report: no dub, no
\* platforms, and nothing of it in the memo.
C22_UncorroboratedScrapeIsIgnored ==
    [][\A t \in DubTasks :
        (/\ srvCheck[t].pc \in {"source", "save"}
         /\ SourceNames[srvCheck[t].idx] = "livechart"
         /\ srvCheck'[t].pc = "idle") =>
            /\ ~returned'.verdict.hasDub
            /\ returned'.verdict.platforms = <<>>
            /\ ~srvCache'[srvCheck[t].id].data.hasDub]_vars

C25_DubVerdictIsPersisted ==
    [][\A t \in DubTasks :
        (/\ srvCheck[t].pc \in {"source", "save"}
         /\ srvCheck'[t].pc = "idle"
         /\ returned'.by = "DubService"
         /\ returned'.verdict.hasDub
         /\ returned'.verdict.source \notin {"database", "cache", "none"}) =>
            /\ srvCache'[srvCheck[t].id].data.hasDub
            /\ checkDatabaseDub(srvCheck[t].id)'.checked
            /\ checkDatabaseDub(srvCheck[t].id)'.hasDub]_vars

\* C26: a progress update writes a session entry if and only if its new
\* last episode is greater than the one stored when it writes, and the entry
\* runs from the stored episode + 1 to the new last episode; no other step
\* writes a session entry.
C26_SessionEntryIffEpisodeIncreased ==
    [][\A c \in ProgressCalls :
          /\ ProgressUpsert(c) =>
                ((usr'.call[c].pc = "log")
                    <=> (usr.call[c].lastEpisode > previousEpisodeOf(usr.progress)))
          /\ logSession(c) =>
                /\ Len(usr'.sessions) = Len(usr.sessions) + 1
                /\ usr'.sessions[Len(usr'.sessions)] =
                       [from_episode |-> usr.call[c].stored + 1,
                        to_episode |-> usr.call[c].lastEpisode]
          /\ (usr'.sessions # usr.sessions) => \E d \in ProgressCalls : logSession(d)
      ]_vars

\* C27: the first loop of the daily update goes over the rows that are
\* AIRING when the job selects them, and asks for the details of an item
\* (updating its row, or recording the item's error) if and only if the
\* item's catalog id is in the airing listing the job fetched; an item the
\* listing lacks is passed over with the store untouched, and no row
\* outside the list is touched in that loop.
C27_FirstPassRefetchesTheIntersection ==
    [][\A r \in Runs :
          /\ SelectAiring(r) =>
                /\ run'[r].pc \in {"pass1", "possiblyFinished"}
                /\ {run'[r].list[k] : k \in 1..Len(run'[r].list)}
                       = {i \in RowIds : anime[i].status = "AIRING"}
          /\ (run[r].pc = "pass1" /\ run'[r] # run[r]) =>
                LET rec == run[r]
                    id == rec.list[rec.idx]
                    fetched == \/ run'[r].updated = rec.updated + 1
                               \/ Len(run'[r].errors) = Len(rec.errors) + 1
                IN  /\ fetched <=> (anime[id].anilist_id \in rec.airing)
                    /\ ~fetched => anime' = anime
                    /\ \A i \in RowIds \ {id} : anime'[i] = anime[i]
      ]_vars

\* A first loop over five AIRING rows of which the listing holds two has
\* updated those two and passed over the third.
C27_Witness ==
    \E r \in Runs :
        /\ run[r].job = "DAILY_UPDATE"
        /\ run[r].pc = "pass1"
        /\ run[r].airing = {1, 2}
        /\ Len(run[r].list) = 5
        /\ run[r].idx = 4
        /\ run[r].updated = 2
        /\ run[r].errors = <<>>

\* C28: a failed page fetch ends the sync as failed (runSync throws), and
\* a sync in which a page fetch failed never writes lastSync nor returns a
\* result.
C28_FailedPageFetchFailsTheSync ==
    [][/\ fetchSeasonAnimeBreaks =>
             (bsync'.pc = "idle" /\ bsync'.outcome = "threw")
       /\ markSynced => ~bsync.truncated
       /\ (bsync'.lastSync # bsync.lastSync) => ~bsync.truncated
      ]_vars

\* The quarters between the season (season, year) and the quarter of time
\* t: 0 for the season on air, positive for a season that is over.
QuartersAgo(season, year, t) ==
    (getFullYear(t) * 4 + currentSeasonIdx(t)) - (year * 4 + indexOf(season))

\* The first day after the season's last month.
SeasonEnd(season, year) ==
    IF season = "FALL" THEN newDate(year + 1, 0, 1)
    ELSE newDate(year, 3 * (indexOf(season) + 1), 1)

\* C29: for a finished season with a snapshot, loadAnimeWithSync's
\* background refresh sends its query only when the snapshot's age has
\* reached the expiry getCacheExpiry assigns to the season (EXPIRY_OLD for
\* a season over for more than 180 days); below that age it sends none.
C29_FinishedSeasonRefreshWaitsForTtl ==
    [][(/\ loadAnimeWithSync
        /\ lc.stored.present
        /\ isFinishedSeason(lc.season, lc.year, lc.t)
        /\ lc.t - lc.stored.timestamp < getCacheExpiry(lc.season, lc.year, lc.t))
          => lc'.pc # "refresh"
      ]_vars

\* C30: the expiry of a season's snapshot is EXPIRY_CURRENT for the season
\* on air, EXPIRY_OLD for a season that has been over for three quarters or
\* more, EXPIRY_RECENT for the season of the quarter before, and for the
\* season two quarters back EXPIRY_OLD once more than 180 days have passed
\* since its end and EXPIRY_RECENT before; the three expiries are in strict
\* order; and neither loadAnimeWithSync nor loadAnime gets from the cache a
\* snapshot of an unfinished season that is older than its expiry.
C30_ExpiryBySeasonAge ==
    /\ [](LET ago == QuartersAgo(lc.season, lc.year, lc.t)
              expiry == getCacheExpiry(lc.season, lc.year, lc.t)
              over == lc.t - SeasonEnd(lc.season, lc.year)
          IN  /\ EXPIRY_CURRENT < EXPIRY_RECENT /\ EXPIRY_RECENT < EXPIRY_OLD
              /\ ago = 0 => expiry = EXPIRY_CURRENT
              /\ ago = 1 => expiry = EXPIRY_RECENT
              /\ ago = 2 => expiry = (IF over > 180 * 1440 THEN EXPIRY_OLD
                                       ELSE EXPIRY_RECENT)
              /\ ago >= 3 => expiry = EXPIRY_OLD
              /\ ago >= 1 <=> isFinishedSeason(lc.season, lc.year, lc.t))
    /\ [][(/\ loadAnimeWithSync \/ loadAnime
           /\ lc.stored.present
           /\ ~isFinishedSeason(lc.season, lc.year, lc.t)
           /\ lc.t - lc.stored.timestamp > getCacheExpiry(lc.season, lc.year, lc.t))
             => lc'.got = "null"
         ]_vars

\* The snapshot of the season on air, older than its expiry, was asked for
\* and not returned; the page goes on to load the season.
C30_Witness ==
    /\ lc.pc = "load"
    /\ lc.got = "null"
    /\ lc.stored.present
    /\ isCurrentSeason(lc.season, lc.year, lc.t)
    /\ lc.t - lc.stored.timestamp > EXPIRY_CURRENT

\* The object of the given id in a list.
EntityOf(list, id) == list[PosOf(list, id)]

C32_FreshFieldsAlwaysWin ==
    [][mergeUpdatesCall =>
          \A id \in IdsOf(mrg.fresh) :
              /\ id \in IdsOf(mrg'.stored.anime)
              /\ LET fresh == EntityOf(mrg.fresh, id)
                     merged == EntityOf(mrg'.stored.anime, id)
                 IN  /\ merged.status = fresh.status
                     /\ merged.title = fresh.title
                     /\ fresh.hasDub # Undefined => merged.hasDub = fresh.hasDub
                     /\ fresh.dubPlatforms.defined =>
                            merged.dubPlatforms = fresh.dubPlatforms
                     /\ fresh.dubConfidence # -1 =>
                            merged.dubConfidence = fresh.dubConfidence
                     /\ fresh.dubCheckedAt # -1 =>
                            merged.dubCheckedAt = fresh.dubCheckedAt
      ]_vars

\* The resolution of an entity has come to its verdict on the server: the
\* loop over the sources is left.
CascadeEnds(t) == srvCheck[t].pc = "source" /\ srvCheck'[t].pc # "source"

C34_ConcurrentUpsertNeverFails ==
    \A r \in Runs :
        \A k \in DOMAIN run[r].errors : run[r].errors[k].msg # "SQLITE_CONSTRAINT"

\* C35: runs in flight together hold different rows of sync_logs; a row
\* that exists changes only by the completion of the run that created it,
\* which writes that run's own added and updated counters and its own
\* errors (the thrown error on the failure path); every other row stays.
C35_RunCompletesItsOwnLog ==
    /\ [](\A r1 \in Runs, r2 \in Runs :
            (r1 # r2 /\ InFlight(r1) /\ InFlight(r2)) => run[r1].logId # run[r2].logId)
    /\ [][\A k \in DOMAIN sync_logs :
            sync_logs'[k] # sync_logs[k] =>
                \E r \in Runs :
                    /\ run[r].logId = k
                    /\ run[r].pc \in {"complete", "catch"}
                    /\ run'[r].pc \in {"done", "failed"}
                    /\ sync_logs'[k].job_type = run[r].job
                    /\ sync_logs'[k].anime_added = run[r].added
                    /\ sync_logs'[k].anime_updated = run[r].updated
                    /\ sync_logs'[k].errors =
                          (IF run[r].pc = "catch" THEN <<run[r].thrown>>
                           ELSE run[r].errors)
                    /\ \A j \in DOMAIN sync_logs \ {k} : sync_logs'[j] = sync_logs[j]
         ]_vars

\* Two runs that overlapped have completed their rows with different
\* counts: one added the title, the other recorded an error for it.
C35_Witness ==
    /\ Len(sync_logs) = 2
    /\ sync_logs[1].completed /\ sync_logs[2].completed
    /\ sync_logs[1].anime_added # sync_logs[2].anime_added
    /\ sync_logs[1].errors # sync_logs[2].errors

\* C36: once a manual dub update has written an entity's row in table dubs,
\* no resolution of that entity answers from the memo with a verdict that
\* disagrees with the rows.  The database is the first source asked and only
\* manual updates write the table, so a memo verdict that disagrees with the
\* rows was computed before the manual change.
C36_NoVerdictFromBeforeTheManualChange ==
    [][\A t \in DubTasks, id \in DubIds :
          (/\ checkDubStatus(t, id)
           /\ returned'.hit
           /\ upd.pc = "idle"
           /\ checkDatabaseDub(id).checked)
          => /\ returned'.verdict.hasDub = checkDatabaseDub(id).hasDub
             /\ returned'.verdict.platforms = checkDatabaseDub(id).platforms]_vars

\* The browser's side of C36, for SpecOverride: with an override recorded
\* and no call in flight, a cached verdict names the override among its
\* sources.
C36_CachedVerdictCarriesTheOverride ==
    [][\A t \in DubTasks, id \in DubIds :
          (/\ checkDub(t, id)
           /\ returned'.hit
           /\ dubOverride[id].found
           /\ \A u \in DubTasks : check[u].pc = "idle")
          => \E i \in DOMAIN returned'.verdict.sources :
                returned'.verdict.sources[i] = "Manual Override"]_vars

\* C37: every title stored under the key of a season and year belongs to
\* that season and year, whatever the user does while background work is
\* awaiting its answer.
C37_SnapshotHoldsItsOwnSeason ==
    \A k \in StoreKeys :
        \A n \in 1..Len(ls[k].anime) : KeyOfId(ls[k].anime[n].id) = k

\* C38: localCache.save(season, year, list) followed at once by
\* localCache.get(season, year) returns list, whatever else the store
\* holds.
C38_SaveThenGetReturnsTheList ==
    [][\A k \in StoreKeys :
          StoreSave(k, <<CatalogAnime(k)>>)
          => get(ls', k, FALSE, pg'.t) = [null |-> FALSE, anime |-> <<CatalogAnime(k)>>]]_vars

\* C39: once a save has returned, the store holds at most MAX_SEASONS
\* items and none older than maxAge.
C39_SaveLeavesABoundedFreshStore ==
    pg.last = "save"
    => /\ Cardinality(getAllEntries(ls)) <= MAX_SEASONS
       /\ \A k \in getAllEntries(ls) : pg.t - ls[k].timestamp <= maxAge

\* The part of C39 that holds: a save whose write succeeded leaves at most
\* MAX_SEASONS items and none older than maxAge.
C39_WrittenSaveLeavesABoundedFreshStore ==
    [][\A k \in StoreKeys :
          StoreSave(k, <<CatalogAnime(k)>>)
          => /\ Cardinality(getAllEntries(ls')) <= MAX_SEASONS
             /\ \A e \in getAllEntries(ls') : pg'.t - ls'[e].timestamp <= maxAge]_vars

\* C37 by the step that writes: the background refresh, and the background
\* dub check, keep every snapshot to titles of its own season.
C37_RefreshKeepsSnapshotsToTheirSeason ==
    [][\A i \in PageTasks :
          (refreshAnswers(i) /\ C37_SnapshotHoldsItsOwnSeason)
          => C37_SnapshotHoldsItsOwnSeason']_vars

C37_DubCheckKeepsSnapshotsToTheirSeason ==
    [][\A i \in PageTasks :
          (/\ \/ checkDubsCompletes(i)
              \/ \E ok \in BOOLEAN : dubCheckSettles(i, ok)
           /\ C37_SnapshotHoldsItsOwnSeason)
          => C37_SnapshotHoldsItsOwnSeason']_vars

\* C40: when n +1 requests have returned and none is in flight, the stored
\* last_episode is n and the session entries cover each of the episodes
\* 1..n exactly once and no other episode.
C40_IncrementsAddUp ==
    (\A c \in ProgressCalls : usr.call[c].pc = "idle")
    => /\ previousEpisodeOf(usr.progress) = usr.started
       /\ \A e \in 1..(MaxUpdates + 1) :
             Cardinality({i \in DOMAIN usr.sessions :
                            /\ usr.sessions[i].from_episode <= e
                            /\ e <= usr.sessions[i].to_episode})
               = IF e <= usr.started THEN 1 ELSE 0

====
